---- MODULE Spec2Model ----
(***************************************************************************)
(* The in-isolate workflow runtime of packages/workflow (internals.ts and  *)
(* the global overrides / initWorkflow of src/unnamed/part_002) as a state *)
(* machine.  The engine singleton `state` is one record; the entry points  *)
(* and handlers are operators from a state record to a state record,       *)
(* computed as the code computes them.  The host calls activate,           *)
(* concludeActivation and resolveExternalDependencies between drained      *)
(* microtask queues.  User code (workflow main, signal and query handlers, *)
(* continuations) runs in frames: while a frame is open it may call the    *)
(* engine (setTimeout, clearTimeout, injected dependencies, childScope),   *)
(* and it ends by returning, throwing or awaiting.                         *)
(***************************************************************************)
EXTENDS Integers, Sequences, FiniteSets, TLC

VARIABLES
  state,      \* the State singleton plus the isolate's promise machinery
  frames,     \* the isolate's call stack: where the running entry point stands in user code
  result,     \* what the last host call returned or threw
  outbound,   \* concatenation of the commands of all `complete` conclusions
  ref         \* a second engine given the same jobs, results and user code, never concluded

vars == <<state, frames, result, outbound, ref>>

\* ------------------------------------------------------------------ bounds
MaxSeq == 3       \* sequence numbers handed out in a run
MaxScopes == 2    \* child scopes opened in a run
MaxThreads == 2   \* user coroutines (main, signal handlers, scope bodies)
MaxEmitted == 3   \* commands pushed plus external calls enqueued in a run
MaxPromises == 2  \* promises user code creates besides those of the scopes

Undefined == -1

\* ------------------------------------------------------------ small helpers
Last(q) == q[Len(q)]

Front(q) == SubSeq(q, 1, Len(q) - 1)

Remove(f, k) == [x \in (DOMAIN f) \ {k} |-> f[x]]

Put(f, k, v) == [x \in (DOMAIN f) \cup {k} |-> IF x = k THEN v ELSE f[x]]

EmptyMap == [x \in {} |-> Undefined]

\* `${seq}`: the decimal digits of a sequence number
seqToId(n) == IF n < 10 THEN <<n>> ELSE <<n \div 10, n % 10>>

\* parseInt(id) of a non-empty digit string
RECURSIVE parseInt(_)
parseInt(id) == IF Len(id) = 1 THEN id[1] ELSE 10 * parseInt(Front(id)) + Last(id)

\* ----------------------------------------------------------------- State
rootScope == [type |-> "scope", parent |-> Undefined, associated |-> TRUE]

State ==
  [ info |-> FALSE,                 \* state.info !== undefined (and state.workflow with it)
    isReplaying |-> FALSE,          \* state.info.isReplaying
    now |-> Undefined,              \* #now
    completions |-> EmptyMap,       \* seq -> [kind, scope]
    scopes |-> <<rootScope>>,       \* the Scope objects; scopes[idx + 1] has index idx
    scopeStack |-> <<0>>,
    childScopes |-> EmptyMap,       \* parent idx -> set of child idx
    commands |-> <<>>,
    pendingExternalCalls |-> <<>>,
    completed |-> FALSE,
    cancelled |-> FALSE,
    nextSeq |-> 0,
    nextScopeIdx |-> 1,
    random |-> Undefined,           \* seed of state.random; Undefined: the throwing stub
    \* the isolate's promise machinery
    promiseData |-> EmptyMap,       \* child scope idx -> data and state of the promise childScope returned
    threads |-> <<>>,               \* user coroutines: [kind, status, scope]
    microtasks |-> <<>>,            \* queued promise reactions: [task, thread, scope, value]
    \* record of the run
    emitted |-> <<>>,               \* every command pushed and external call enqueued, in order
    thrown |-> "none" ]             \* error escaping the entry point being run

Throw(s, e) == IF s.thrown = "none" THEN [s EXCEPT !.thrown = e] ELSE s

Cmd(type, timerId, detail) == [type |-> type, timerId |-> timerId, detail |-> detail]

NoId == <<>>

\* a JavaScript value as far as the engine looks at it: whether it is null or
\* undefined, and what its message (an error's) or content (a result's) is
JsValue(message) == [nullish |-> FALSE, message |-> message]

Nullish == [nullish |-> TRUE, message |-> Undefined]

pushCommandFirst(s, c) ==
  [s EXCEPT !.commands = <<c>> \o @,
            !.emitted = Append(@, [type |-> c.type, timerId |-> c.timerId, seq |-> Undefined,
                                   detail |-> c.detail])]

pushCommand(s, c) ==
  [s EXCEPT !.commands = Append(@, c),
            !.emitted = Append(@, [type |-> c.type, timerId |-> c.timerId, seq |-> Undefined,
                                   detail |-> c.detail])]

\* ------------------------------------------------------ scopes (internals.ts)
currentScope(s) == IF s.scopeStack = <<>> THEN Undefined ELSE Last(s.scopeStack)

scopeOf(s, idx) == s.scopes[idx + 1]

pushScope(s, idx) ==
  LET s1 == [s EXCEPT !.scopeStack = Append(@, idx)]
      parent == scopeOf(s, idx).parent
  IN IF parent = Undefined THEN s1
     ELSE [s1 EXCEPT !.childScopes =
             Put(@, parent, (IF parent \in DOMAIN @ THEN @[parent] ELSE {}) \cup {idx})]

popScope(s) ==
  IF s.scopeStack = <<>> THEN s ELSE [s EXCEPT !.scopeStack = Front(@)]

\* ---------------------------------------- the promise hook (initWorkflow)
\* metadata of promise p created while `scope` is current: its scope is that of the
\* parent promise pp when there is one with metadata, the current scope otherwise (a
\* parent without metadata gets the current scope, not cancellable)
initData(s, p, pp, scope, cancellable) ==
  IF pp = Undefined
  THEN Put(s.promiseData, p, [scope |-> scope, cancellable |-> cancellable, settled |-> FALSE])
  ELSE IF pp \notin DOMAIN s.promiseData
  THEN Put(Put(s.promiseData, pp, [scope |-> scope, cancellable |-> FALSE, settled |-> FALSE]),
           p, [scope |-> scope, cancellable |-> cancellable, settled |-> FALSE])
  ELSE Put(s.promiseData, p, [scope |-> s.promiseData[pp].scope, cancellable |-> cancellable,
                              settled |-> FALSE])

hookInitKeepsFlag(s, p, pp) ==
  LET scope == currentScope(s)
  IN IF scope = Undefined THEN Throw(s, "Error")
     ELSE [s EXCEPT !.promiseData = initData(s, p, pp, scope, ~scopeOf(s, scope).associated)]

\* 'init' of promise p with parent promise pp (Undefined: none)
hookInit(s, p, pp) ==
  LET scope == currentScope(s)
  IN IF scope = Undefined THEN Throw(s, "Error")
     ELSE [s EXCEPT !.promiseData = initData(s, p, pp, scope, ~scopeOf(s, scope).associated),
                    !.scopes[scope + 1].associated = TRUE]

hookResolve(s, data) ==
  IF ~data.cancellable THEN s
  ELSE LET parent == scopeOf(s, data.scope).parent
       IN IF parent = Undefined THEN Throw(s, "IllegalState")
          ELSE IF parent \notin DOMAIN s.childScopes THEN s
          ELSE LET scopes == s.childScopes[parent] \ {data.scope}
               IN IF scopes = {}
                  THEN [s EXCEPT !.childScopes = Remove(@, parent)]
                  ELSE [s EXCEPT !.childScopes[parent] = scopes]

\* the nearest ancestor of type 'scope' (Undefined: parentless)
RECURSIVE container(_, _)
container(s, idx) ==
  IF idx = Undefined THEN Undefined
  ELSE IF scopeOf(s, idx).type = "scope" THEN idx
  ELSE container(s, scopeOf(s, idx).parent)

hookBeforeOwnScope(s, data) == pushScope(s, data.scope)

hookBefore(s, data) ==
  LET scope == container(s, data.scope)
  IN IF scope = Undefined THEN Throw(s, "IllegalState") ELSE pushScope(s, scope)

hookAfterNoPop(s, data) == s

hookAfter(s, data) == popScope(s)

\* ------------------------------------------- the isolate's promise machinery
Microtask(task, thread, scope, value) ==
  [task |-> task, thread |-> thread, scope |-> scope, value |-> value]

enqueue(s, m) == [s EXCEPT !.microtasks = Append(@, m)]

Thread(kind, scope) == [kind |-> kind, status |-> "running", scope |-> scope, error |-> Nullish]

\* a promise a thread awaits settles with a value, resolved or rejected: the thread's
\* continuation is queued
wakeWith(s, t, value, rejected) ==
  IF t \in DOMAIN s.threads /\ s.threads[t].status = "waiting"
  THEN enqueue([s EXCEPT !.threads[t].status = "ready",
                         !.threads[t].error = IF rejected THEN value ELSE Nullish],
               Microtask("resume", t, Undefined, value))
  ELSE s

wake(s, t) == wakeWith(s, t, Nullish, FALSE)

\* data of the promises created while a thread's code runs: its scope is already associated
threadData(s, t) == [scope |-> s.threads[t].scope, cancellable |-> FALSE, settled |-> FALSE]

\* the promise childScope returned for scope idx is resolved or rejected (once)
settle(s, idx) ==
  IF s.promiseData[idx].settled THEN s
  ELSE hookResolve([s EXCEPT !.promiseData[idx].settled = TRUE], s.promiseData[idx])

\* --------------------------------------- overrideGlobals (src/unnamed/part_002)
\* msToTs(ms): a protobuf duration of whole seconds and nanoseconds
msToTs(ms) == [seconds |-> ms \div 1000, nanos |-> (ms % 1000) * 1000000]

setTimeoutSameSeq(s, ms) ==
  LET seq == s.nextSeq
      scope == currentScope(s)
  IN IF scope = Undefined THEN Throw(s, "Error")
     ELSE pushCommand([s EXCEPT !.completions = Put(@, seq, [kind |-> "timer", scope |-> scope])],
                      Cmd("startTimer", seqToId(seq), msToTs(ms)))

setTimeoutNoDelay(s, ms) ==
  LET seq == s.nextSeq
      s1 == [s EXCEPT !.nextSeq = @ + 1]
      scope == currentScope(s1)
  IN IF scope = Undefined THEN Throw(s1, "Error")
     ELSE pushCommand([s1 EXCEPT !.completions = Put(@, seq, [kind |-> "timer", scope |-> scope])],
                      Cmd("startTimer", seqToId(seq), msToTs(0)))

setTimeoutRootScope(s, ms) ==
  LET seq == s.nextSeq
      s1 == [s EXCEPT !.nextSeq = @ + 1]
  IN pushCommand([s1 EXCEPT !.completions = Put(@, seq, [kind |-> "timer", scope |-> 0])],
                 Cmd("startTimer", seqToId(seq), msToTs(ms)))

\* what setTimeout returns: the handle user code passes to clearTimeout
setTimeoutHandle(s) == s.nextSeq

setTimeout(s, ms) ==
  LET seq == s.nextSeq
      s1 == [s EXCEPT !.nextSeq = @ + 1]
      scope == currentScope(s1)
  IN IF scope = Undefined THEN Throw(s1, "Error")
     ELSE pushCommand([s1 EXCEPT !.completions = Put(@, seq, [kind |-> "timer", scope |-> scope])],
                      Cmd("startTimer", seqToId(seq), msToTs(ms)))

clearTimeoutOwnSeq(s, handle) ==
  pushCommand([s EXCEPT !.nextSeq = @ + 1, !.completions = Remove(@, handle)],
              Cmd("cancelTimer", seqToId(s.nextSeq), Undefined))

clearTimeoutKeepsCompletion(s, handle) ==
  pushCommand([s EXCEPT !.nextSeq = @ + 1], Cmd("cancelTimer", seqToId(handle), Undefined))

clearTimeoutNoSeq(s, handle) ==
  pushCommand([s EXCEPT !.completions = Remove(@, handle)],
              Cmd("cancelTimer", seqToId(handle), Undefined))

clearTimeout(s, handle) ==
  pushCommand([s EXCEPT !.nextSeq = @ + 1, !.completions = Remove(@, handle)],
              Cmd("cancelTimer", seqToId(handle), Undefined))

\* ------------------------------------------------ inject (internals.ts 420-447)
\* a call of a dependency injected with ApplyMode.ASYNC
callAsyncUnbound(s) ==
  [s EXCEPT !.nextSeq = @ + 1,
            !.pendingExternalCalls = Append(@, [seq |-> s.nextSeq]),
            !.emitted = Append(@, [type |-> "externalCall", timerId |-> NoId, seq |-> s.nextSeq,
                                   detail |-> Undefined])]

callAsync(s) ==
  LET seq == s.nextSeq
      s1 == [s EXCEPT !.nextSeq = @ + 1]
      scope == currentScope(s1)
  IN IF scope = Undefined THEN Throw(s1, "Error")
     ELSE [s1 EXCEPT !.completions = Put(@, seq, [kind |-> "external", scope |-> scope]),
                     !.pendingExternalCalls = Append(@, [seq |-> seq]),
                     !.emitted = Append(@, [type |-> "externalCall", timerId |-> NoId, seq |-> seq,
                                            detail |-> Undefined])]

\* a call of a dependency injected with ApplyMode.ASYNC_IGNORED
callIgnored(s) ==
  [s EXCEPT !.pendingExternalCalls = Append(@, [seq |-> Undefined]),
            !.emitted = Append(@, [type |-> "externalCall", timerId |-> NoId, seq |-> Undefined,
                                   detail |-> Undefined])]

\* ------------------------------------------------------------- childScope
\* childScope up to the call of fn(): the scope is pushed and the promise created
childScopeEnterUnderRoot(s, type) ==
  LET idx == s.nextScopeIdx
      s1 == [s EXCEPT !.nextScopeIdx = @ + 1]
  IN hookInit(pushScope([s1 EXCEPT !.scopes = Append(@, [type |-> type, parent |-> 0,
                                                        associated |-> FALSE])], idx),
              idx, Undefined)

childScopeEnter(s, type) ==
  LET idx == s.nextScopeIdx
      s1 == [s EXCEPT !.nextScopeIdx = @ + 1]
      parent == currentScope(s1)
  IN IF parent = Undefined THEN Throw(s1, "Error")
     ELSE hookInit(pushScope([s1 EXCEPT !.scopes = Append(@, [type |-> type, parent |-> parent,
                                                           associated |-> FALSE])], idx),
                   idx, Undefined)

\* childScope from the return of fn(): `how` is what fn did ("throw": threw,
\* "return": returned a value or a settled promise, "await": a pending promise)
childScopeLeave(s, idx, how) ==
  LET s1 == CASE how = "throw" -> settle(s, idx)
              [] how = "return" -> enqueue(s, Microtask("settle", Undefined, idx, Nullish))
              [] OTHER -> [s EXCEPT !.threads = Append(@, [Thread("scope", idx) EXCEPT
                                                             !.status = "waiting"])]
  IN popScope(s1)

\* ------------------------------------------------------- scheduling an activity
\* user code opens an activity: a child scope of type 'activity', a sequence number,
\* a scheduleActivity command carrying it as activityId, and a completion that records
\* the activity's scope; the promise of the scope is what user code awaits
scheduleActivity(s) ==
  LET idx == s.nextScopeIdx
      s1 == childScopeEnter(s, "activity")
      seq == s1.nextSeq
  IN IF s1.thrown # "none" THEN s1
     ELSE popScope(pushCommand([s1 EXCEPT !.nextSeq = @ + 1,
                                          !.completions = Put(@, seq, [kind |-> "activity", scope |-> idx])],
                               Cmd("scheduleActivity", seqToId(seq), Undefined)))

\* ------------------------------------ workflow lifecycle (internals.ts 329-369)
getAndResetPendingExternalCallsKeeps(s) == s

getAndResetPendingExternalCalls(s) == [s EXCEPT !.pendingExternalCalls = <<>>]

\* defaultDataConverter.toPayload(result)
toPayload(value) == value.message

\* a payload the server sends: absent, or data that the converter can decode or not
Payload(present, decodable, data) == [present |-> present, decodable |-> decodable, data |-> data]

NoPayload == Payload(FALSE, FALSE, "")

\* the message of a failure that has none
NoMessage == ""

\* completed.result ? defaultDataConverter.fromPayload(completed.result) : undefined
fromPayload(payload) ==
  IF payload.present /\ payload.decodable THEN JsValue(payload.data) ELSE Nullish

\* errorToUserCodeFailure(error): a failure carrying the error's message
errorToUserCodeFailure(error) == error.message

completeWorkflowUnflagged(s, value) ==
  pushCommand(s, Cmd("completeWorkflowExecution", NoId, toPayload(value)))

completeWorkflow(s, value) ==
  [pushCommand(s, Cmd("completeWorkflowExecution", NoId, toPayload(value))) EXCEPT !.completed = TRUE]

failWorkflowUnflagged(s, error) ==
  pushCommand(s, Cmd("failWorkflowExecution", NoId, errorToUserCodeFailure(error)))

failWorkflow(s, error) ==
  [pushCommand(s, Cmd("failWorkflowExecution", NoId, errorToUserCodeFailure(error))) EXCEPT
     !.completed = TRUE]

completeQuery(s, value) == pushCommand(s, Cmd("respondToQuery.succeeded", NoId, toPayload(value)))

\* error.message of null or undefined is a TypeError
failQuery(s, error) ==
  IF error.nullish THEN Throw(s, "TypeError")
  ELSE pushCommand(s, Cmd("respondToQuery.failedWithMessage", NoId, error.message))

consumeCompletion(s, taskSeq) ==
  IF taskSeq \notin DOMAIN s.completions THEN Throw(s, "Error")
  ELSE [s EXCEPT !.completions = Remove(@, taskSeq)]

\* ---------------------------------------------------------------- inputs
Timestamps == {1}

Seeds == {1}

Durations == {100}            \* milliseconds user code passes to setTimeout

TestDurations == {1, 100, 10000}   \* the delays of the timers of the test workflows

Handles == 0 .. MaxSeq - 1    \* numbers user code and the host pass as timer handles / seqs

ScopeTypes == {"scope", "timer"}

Activations == [timestamp : Timestamps, isReplaying : {FALSE}]

Job(variant, timerId, registered, seed) ==
  [variant |-> variant, timerId |-> timerId, registered |-> registered, seed |-> seed]

\* the result of a resolveActivity job: absent, or one of the variants, or none of them
ActivityResult(present, status, payload, message) ==
  [present |-> present, status |-> status, payload |-> payload, message |-> message]

ActivityResults ==
  {ActivityResult(FALSE, "none", NoPayload, NoMessage),
   ActivityResult(TRUE, "none", NoPayload, NoMessage),
   ActivityResult(TRUE, "completed", Payload(TRUE, TRUE, "result"), NoMessage),
   ActivityResult(TRUE, "completed", Payload(TRUE, FALSE, "result"), NoMessage),
   ActivityResult(TRUE, "completed", NoPayload, NoMessage),
   ActivityResult(TRUE, "failed", NoPayload, "Fail me"),
   ActivityResult(TRUE, "canceled", NoPayload, NoMessage)}

CompleteCancelOutcomes == {"rejects", "rethrows", "throws"}

ActivityJob(activityId, res, outcome) ==
  [variant |-> "resolveActivity", timerId |-> NoId, registered |-> FALSE, seed |-> Undefined,
   activityId |-> activityId, result |-> res, completeCancel |-> outcome]

rootData == [scope |-> 0, cancellable |-> FALSE, settled |-> FALSE]

\* the threads a settling promise may be awaited by (0: by none)
Awaiters(s) == {0} \cup {t \in DOMAIN s.threads : s.threads[t].status = "waiting"}

HasMain(s) == \E t \in DOMAIN s.threads : s.threads[t].kind = "main"

\* what a thread's code returns, or the message of the error it throws: one per
\* thread (0: of a query handler)
ValueOf(t) == JsValue(ToString(t))

\* -------------------------------------------------- initWorkflow (part_002)
initWorkflow(s, randomnessSeed) == [s EXCEPT !.info = TRUE, !.random = randomnessSeed]

\* ------------------------------------------------- Activator (internals.ts)
\* startWorkflow up to the call of workflow.main
startWorkflow(s) == [s EXCEPT !.threads = Append(@, Thread("main", 0))]

\* propagateCancellation('completeCancel')(() => undefined, rootScope): every child's
\* completeCancel runs; `rejects` tells whether a child's completeCancel rejects the
\* child's promise, which thread t awaits (0: nobody)
RECURSIVE cancelChildren(_, _, _, _)
cancelChildren(s, children, rejects, t) ==
  IF children = {} THEN s
  ELSE LET child == CHOOSE c \in children : \A d \in children : c <= d
           s1 == IF rejects /\ ~s.promiseData[child].settled THEN wake(settle(s, child), t) ELSE s
       IN cancelChildren(s1, children \ {child}, rejects, t)

rootScopeCancel(s, rejects, t) ==
  IF 0 \notin DOMAIN s.childScopes THEN Throw(s, "Error")
  ELSE cancelChildren(s, s.childScopes[0], rejects, t)

cancelWorkflow(s, rejects, t) == rootScopeCancel([s EXCEPT !.cancelled = TRUE], rejects, t)

idToSeq(id) == IF id = NoId THEN Undefined ELSE parseInt(id)

\* fireTimer: the completion is consumed and its resolve called; the callback of the
\* timer settles a promise that thread t awaits (0: that nobody awaits)
fireTimer(s, timerId, t) ==
  IF idToSeq(timerId) = Undefined THEN Throw(s, "Error")
  ELSE LET s1 == consumeCompletion(s, idToSeq(timerId))
       IN IF s1.thrown # "none" THEN s1 ELSE wake(s1, t)

\* the resolve / reject callbacks of a completion: those of a timer run the callback
\* (which settles what thread t awaits) and ignore a rejection; those of an activity or
\* an external call settle the promise thread t awaits
callResolve(s, completion, t, value) ==
  IF completion.kind = "activity" THEN wakeWith(settle(s, completion.scope), t, value, FALSE)
  ELSE wakeWith(s, t, value, FALSE)

callRejectDropped(s, completion, t, error) == s

callReject(s, completion, t, error) ==
  CASE completion.kind = "activity" -> wakeWith(settle(s, completion.scope), t, error, TRUE)
    [] completion.kind = "timer" -> s
    [] OTHER -> wakeWith(s, t, error, TRUE)

\* scope.completeCancel(error) of the scope a completion recorded, by what the function
\* does: it rejects the scope's promise with the error, throws the error back, or throws
\* another error ('Cancellation function not set', a missing child scope mapping)
completeCancel(s, completion, t, error, outcome) ==
  CASE outcome = "rejects" ->
         IF completion.scope \in DOMAIN s.promiseData
         THEN (IF s.promiseData[completion.scope].settled THEN s
               ELSE wakeWith(settle(s, completion.scope), t, error, TRUE))
         ELSE s
    [] outcome = "rethrows" -> Throw(s, "CancellationError")
    [] OTHER -> Throw(s, "Error")

propagateAll(s) == s

\* the catch of lines 105-107 lets only a CancellationError go
swallowCancellation(s) == IF s.thrown = "CancellationError" THEN [s EXCEPT !.thrown = "none"] ELSE s

resolveActivity(s, job, t) ==
  IF ~job.result.present THEN Throw(s, "Error")
  ELSE IF idToSeq(job.activityId) = Undefined THEN Throw(s, "Error")
  ELSE LET seq == idToSeq(job.activityId)
           s1 == consumeCompletion(s, seq)
       IN IF s1.thrown # "none" THEN s1
          ELSE LET completion == s.completions[seq]
               IN CASE job.result.status = "completed" ->
                         IF fromPayload(job.result.payload).nullish
                         THEN callReject(s1, completion, t, JsValue("Failed to convert from payload"))
                         ELSE callResolve(s1, completion, t, fromPayload(job.result.payload))
                    [] job.result.status = "failed" ->
                         callReject(s1, completion, t, JsValue(job.result.message))
                    [] job.result.status = "canceled" ->
                         swallowCancellation(completeCancel(s1, completion, t, JsValue("Activity cancelled"),
                                                            job.completeCancel))
                    [] OTHER -> s1

\* queryWorkflow up to the call of the handler; calling a missing handler is a
\* TypeError, caught and passed to failQuery
queryWorkflow(s, registered) == IF registered THEN s ELSE failQuery(s, ValueOf(0))

\* signalWorkflow up to the call of the handler
signalWorkflow(s, registered) ==
  IF ~registered THEN Throw(s, "Error")
  ELSE [s EXCEPT !.threads = Append(@, Thread("signal", 0))]

updateRandomSeed(s, randomnessSeed) == [s EXCEPT !.random = randomnessSeed]

removeFromCacheReturns(s) == s

removeFromCache(s) == Throw(s, "IllegalState")

\* the getter of state.now, which Date.now() and new Date() read: the value, or the
\* error thrown while #now is undefined
now(s) ==
  IF s.now = Undefined THEN [value |-> Undefined, thrown |-> "IllegalState"]
  ELSE [value |-> s.now, thrown |-> "none"]

\* -------------------------------------------------- activate (internals.ts)
\* lines 186-200: the clock is set before the initialisation check
activatePrologue(s, activation) ==
  LET s1 == [s EXCEPT !.now = activation.timestamp]
  IN IF ~s.info THEN Throw(s1, "IllegalState")
     ELSE [s1 EXCEPT !.isReplaying = activation.isReplaying]

\* line 204
skipsNothing(s, job) == FALSE

skips(s, job) == s.completed /\ job.variant # "queryWorkflow"

\* line 207 up to the first call into user code (or to the handler's end); `rejects`
\* and `t` say what the code called back does (see cancelWorkflow, fireTimer)
dispatch(s, job, rejects, t) ==
  CASE job.variant = "startWorkflow" -> startWorkflow(s)
    [] job.variant = "cancelWorkflow" -> cancelWorkflow(s, rejects, t)
    [] job.variant = "fireTimer" -> fireTimer(s, job.timerId, t)
    [] job.variant = "resolveActivity" -> resolveActivity(s, job, t)
    [] job.variant = "queryWorkflow" -> queryWorkflow(s, job.registered)
    [] job.variant = "signalWorkflow" -> signalWorkflow(s, job.registered)
    [] job.variant = "updateRandomSeed" -> updateRandomSeed(s, job.seed)
    [] OTHER -> removeFromCache(s)

\* whether activate gets past lines 190 and 204
processes(s, activation, job) ==
  activatePrologue(s, activation).thrown = "none" /\ ~skips(activatePrologue(s, activation), job)

\* the state when activate is about to return or throw, or has called into user code
activateBody(s, activation, job, rejects, t) ==
  IF processes(s, activation, job) THEN dispatch(activatePrologue(s, activation), job, rejects, t)
  ELSE activatePrologue(s, activation)

NoFrame == [kind |-> "none", thread |-> 0, scope |-> 0]

\* the frame of user code a dispatched job has entered (NoFrame: none)
userFrame(s1, job) ==
  CASE job.variant = "startWorkflow" -> [kind |-> "startWorkflow", thread |-> Len(s1.threads), scope |-> 0]
    [] job.variant = "signalWorkflow" -> [kind |-> "signalWorkflow", thread |-> Len(s1.threads), scope |-> 0]
    [] job.variant = "queryWorkflow" /\ job.registered -> [kind |-> "queryWorkflow", thread |-> 0, scope |-> 0]
    [] OTHER -> NoFrame

\* whether activate has called into user code that is now running
enters(s, activation, job, rejects, t) ==
  /\ processes(s, activation, job)
  /\ activateBody(s, activation, job, rejects, t).thrown = "none"
  /\ userFrame(activateBody(s, activation, job, rejects, t), job).kind # "none"

\* what of a job's content the result of the call is reported with
NoInput == [id |-> NoId, status |-> "none", payload |-> NoPayload, message |-> NoMessage,
            completeCancel |-> "none"]

inputOf(job) ==
  CASE job.variant = "resolveActivity" ->
         [id |-> job.activityId, status |-> IF job.result.present THEN job.result.status ELSE "absent",
          payload |-> job.result.payload, message |-> job.result.message,
          completeCancel |-> job.completeCancel]
    [] job.variant = "fireTimer" -> [NoInput EXCEPT !.id = job.timerId]
    [] OTHER -> NoInput

NoResult == [op |-> "none", variant |-> "none", error |-> "none", processed |-> FALSE,
             type |-> "none", pendingExternalCalls |-> <<>>, input |-> NoInput]

\* what activate returns (lines 205, 208) or throws, given the state at that point
activateResult(s, variant, processed) ==
  [NoResult EXCEPT !.op = "activate", !.variant = variant, !.error = s.thrown,
                   !.processed = processed /\ s.thrown = "none",
                   !.pendingExternalCalls = IF s.thrown = "none" THEN s.pendingExternalCalls ELSE <<>>]

\* the state activate leaves: the pending external calls are handed over unless it threw
activateReturn(s) ==
  IF s.thrown = "none" THEN getAndResetPendingExternalCalls(s) ELSE [s EXCEPT !.thrown = "none"]

\* activate up to its return, or up to its call into user code
activate(s, activation, job, rejects, t) ==
  IF enters(s, activation, job, rejects, t) THEN activateBody(s, activation, job, rejects, t)
  ELSE activateReturn(activateBody(s, activation, job, rejects, t))

\* ----------------------------------------- concludeActivation (internals.ts)
concludeResult(s) ==
  IF Len(s.pendingExternalCalls) > 0
  THEN [NoResult EXCEPT !.op = "concludeActivation", !.type = "pending",
                        !.pendingExternalCalls = s.pendingExternalCalls]
  ELSE [NoResult EXCEPT !.op = "concludeActivation", !.type = "complete"]

\* the commands a conclusion encodes
encoded(s) == IF Len(s.pendingExternalCalls) > 0 THEN <<>> ELSE s.commands

concludeActivationKeepsPending(s) ==
  IF Len(s.pendingExternalCalls) > 0 THEN s ELSE [s EXCEPT !.commands = <<>>]

concludeActivationKeepsCommands(s) == getAndResetPendingExternalCalls(s)

concludeActivationDropsCommands(s) == [getAndResetPendingExternalCalls(s) EXCEPT !.commands = <<>>]

concludeActivation(s) ==
  LET s1 == getAndResetPendingExternalCalls(s)
  IN IF Len(s.pendingExternalCalls) > 0 THEN s1 ELSE [s1 EXCEPT !.commands = <<>>]

\* ------------------------------ resolveExternalDependencies (internals.ts)
\* {seq, result, error} of a dependency that returned nothing or failed with an Error
ExternalResult(seq, failed) ==
  [seq |-> seq, result |-> Nullish, error |-> IF failed THEN JsValue("error") ELSE Nullish]

\* one or two results, as the host batches them
ResultBatch(n, seq1, failed1, seq2, failed2) ==
  IF n = 1 THEN <<ExternalResult(seq1, failed1)>>
  ELSE <<ExternalResult(seq1, failed1), ExternalResult(seq2, failed2)>>

RECURSIVE resolveExternalDependenciesAlwaysResolves(_, _, _)
resolveExternalDependenciesAlwaysResolves(s, results, t) ==
  IF results = <<>> \/ s.thrown # "none" THEN s
  ELSE LET s1 == consumeCompletion(s, Head(results).seq)
       IN IF s1.thrown # "none" THEN s1
          ELSE resolveExternalDependenciesAlwaysResolves(
                 callResolve(s1, s.completions[Head(results).seq], t, Head(results).result),
                 Tail(results), t)

\* results: sequence of [seq, result, error]; t: the thread awaiting the calls (0: none)
RECURSIVE resolveExternalDependencies(_, _, _)
resolveExternalDependencies(s, results, t) ==
  IF results = <<>> \/ s.thrown # "none" THEN s
  ELSE LET seq == Head(results).seq
           s1 == consumeCompletion(s, seq)
       IN IF s1.thrown # "none" THEN s1
          ELSE resolveExternalDependencies(
                 IF ~Head(results).error.nullish
                 THEN callReject(s1, s.completions[seq], t, Head(results).error)
                 ELSE callResolve(s1, s.completions[seq], t, Head(results).result),
                 Tail(results), t)

\* --------------------------------------------------------------- the host
Init ==
  /\ state = State
  /\ ref = State
  /\ frames = <<>>
  /\ result = NoResult
  /\ outbound = <<>>

\* the host calls in only when the isolate is idle and its microtask queue drained
Quiescent == frames = <<>> /\ state.microtasks = <<>>

InitWorkflow ==
  /\ Quiescent
  /\ ~state.info
  /\ \E seed \in Seeds : (state' = initWorkflow(state, seed)
                          /\ ref' = initWorkflow(ref, seed))
  /\ result' = [NoResult EXCEPT !.op = "initWorkflow"]
  /\ UNCHANGED <<frames, outbound>>

\* activate(encodedActivation, jobIndex) for one job of an activation
Activate(activation, job, rejects, t) ==
  /\ Quiescent
  /\ LET body == activateBody(state, activation, job, rejects, t)
     IN IF enters(state, activation, job, rejects, t)
        THEN /\ Len(body.threads) <= MaxThreads
             /\ frames' = <<userFrame(body, job)>>
             /\ result' = [NoResult EXCEPT !.op = "running", !.variant = job.variant]
        ELSE /\ Len(body.emitted) <= MaxEmitted
             /\ frames' = <<>>
             /\ result' = [activateResult(body, job.variant, processes(state, activation, job))
                             EXCEPT !.input = inputOf(job)]
  /\ (state' = activate(state, activation, job, rejects, t)
      /\ ref' = activate(ref, activation, job, rejects, t))
  /\ UNCHANGED outbound

StartWorkflow ==
  /\ ~HasMain(state)
  /\ \E a \in Activations : Activate(a, Job("startWorkflow", NoId, FALSE, Undefined), FALSE, 0)

CancelWorkflow ==
  \E a \in Activations, rejects \in BOOLEAN, t \in Awaiters(state) :
    /\ (~rejects \/ 0 \notin DOMAIN state.childScopes) => t = 0
    /\ Activate(a, Job("cancelWorkflow", NoId, FALSE, Undefined), rejects, t)

\* the server fires a timer the workflow has started and not seen fire or cancelled
FireTimer ==
  \E a \in Activations, h \in Handles, t \in Awaiters(state) :
    /\ h \in DOMAIN state.completions /\ state.completions[h].kind = "timer"
    /\ Activate(a, Job("fireTimer", seqToId(h), FALSE, Undefined), FALSE, t)

\* the server reports the outcome of an activity the workflow has scheduled
ResolveActivity ==
  \E a \in Activations, h \in Handles, t \in Awaiters(state), res \in ActivityResults,
     outcome \in CompleteCancelOutcomes :
    /\ h \in DOMAIN state.completions /\ state.completions[h].kind = "activity"
    /\ (res.status # "canceled") => outcome = "rejects"
    /\ Activate(a, ActivityJob(seqToId(h), res, outcome), FALSE, t)

QueryWorkflow ==
  \E a \in Activations, registered \in BOOLEAN :
    Activate(a, Job("queryWorkflow", NoId, registered, Undefined), FALSE, 0)

SignalWorkflow ==
  \E a \in Activations :
    Activate(a, Job("signalWorkflow", NoId, TRUE, Undefined), FALSE, 0)

UpdateRandomSeed ==
  \E a \in Activations, seed \in Seeds :
    Activate(a, Job("updateRandomSeed", NoId, FALSE, seed), FALSE, 0)

RemoveFromCache ==
  \E a \in Activations : Activate(a, Job("removeFromCache", NoId, FALSE, Undefined), FALSE, 0)

\* the second engine is not concluded
ConcludeActivation ==
  /\ Quiescent
  /\ state' = concludeActivation(state)
  /\ result' = concludeResult(state)
  /\ outbound' = outbound \o encoded(state)
  /\ UNCHANGED <<frames, ref>>

\* the host delivers the result of an awaited external call
ResolveExternalDependencies ==
  /\ Quiescent
  /\ state.info
  /\ \E seq \in Handles, t \in Awaiters(state) :
       LET results == <<ExternalResult(seq, FALSE)>>
       IN /\ seq \in DOMAIN state.completions /\ state.completions[seq].kind = "external"
          /\ (state' = [resolveExternalDependencies(state, results, t) EXCEPT !.thrown = "none"]
              /\ ref' = [resolveExternalDependencies(ref, results, t) EXCEPT !.thrown = "none"])
          /\ result' = [NoResult EXCEPT !.op = "resolveExternalDependencies",
                                        !.error = resolveExternalDependencies(state, results, t).thrown]
  /\ UNCHANGED <<frames, outbound>>

\* the host delivers a batch of results, whatever their seqs
DeliverResults ==
  /\ Quiescent
  /\ state.info
  /\ \E n \in 1 .. 2, seq1, seq2 \in Handles, failed1, failed2 \in BOOLEAN, t \in Awaiters(state) :
       LET results == ResultBatch(n, seq1, failed1, seq2, failed2)
       IN /\ n = 1 => (seq2 = seq1 /\ failed2 = failed1)
          /\ (state' = [resolveExternalDependencies(state, results, t) EXCEPT !.thrown = "none"]
              /\ ref' = [resolveExternalDependencies(ref, results, t) EXCEPT !.thrown = "none"])
          /\ result' = [NoResult EXCEPT !.op = "resolveExternalDependencies",
                                        !.error = resolveExternalDependencies(state, results, t).thrown,
                                        !.input = results]
  /\ UNCHANGED <<frames, outbound>>

\* the calls of a pending conclusion that await a result
RECURSIVE AwaitedOf(_)
AwaitedOf(calls) ==
  IF calls = <<>> THEN <<>>
  ELSE IF Head(calls).seq = Undefined THEN AwaitedOf(Tail(calls))
  ELSE <<Head(calls).seq>> \o AwaitedOf(Tail(calls))

\* one result for each of the seqs, in their order
RECURSIVE AnswersTo(_, _)
AnswersTo(seqs, failed) ==
  IF seqs = <<>> THEN <<>>
  ELSE <<ExternalResult(Head(seqs), failed)>> \o AnswersTo(Tail(seqs), failed)

\* the last conclusion was pending and returned calls the host has not answered yet
Answering ==
  /\ result.op = "concludeActivation" /\ result.type = "pending"
  /\ AwaitedOf(result.pendingExternalCalls) # <<>>

\* the host answers a pending conclusion: one result for each returned call that has a
\* seq, delivered in one batch (results without error: what an error does to the
\* awaiting code is the subject of DeliverResults)
AnswerPending ==
  /\ Quiescent /\ Answering
  /\ \E t \in Awaiters(state) :
       LET results == AnswersTo(AwaitedOf(result.pendingExternalCalls), FALSE)
       IN /\ (state' = [resolveExternalDependencies(state, results, t) EXCEPT !.thrown = "none"]
              /\ ref' = [resolveExternalDependencies(ref, results, t) EXCEPT !.thrown = "none"])
          /\ result' = [NoResult EXCEPT !.op = "resolveExternalDependencies",
                                        !.error = resolveExternalDependencies(state, results, t).thrown,
                                        !.input = results]
  /\ UNCHANGED <<frames, outbound>>

\* the host concludes, once it has answered the pending conclusion before
HostConclude == ~Answering /\ ConcludeActivation

\* ------------------------------------------------------------- user code
\* user code is running: the calls it can make into the engine
Running == frames # <<>>

SetTimeout ==
  /\ Running
  /\ state.nextSeq < MaxSeq /\ Len(state.emitted) < MaxEmitted
  /\ \E ms \in Durations : (state' = setTimeout(state, ms)
                             /\ ref' = setTimeout(ref, ms))
  /\ UNCHANGED <<frames, result, outbound>>

ClearTimeout ==
  /\ Running
  /\ state.nextSeq < MaxSeq /\ Len(state.emitted) < MaxEmitted
  /\ \E handle \in Handles : (state' = clearTimeout(state, handle)
                              /\ ref' = clearTimeout(ref, handle))
  /\ UNCHANGED <<frames, result, outbound>>

ScheduleActivity ==
  /\ Running
  /\ state.nextSeq < MaxSeq /\ Len(state.emitted) < MaxEmitted /\ state.nextScopeIdx <= MaxScopes
  /\ state' = scheduleActivity(state) /\ ref' = scheduleActivity(ref)
  /\ UNCHANGED <<frames, result, outbound>>

CallAsync ==
  /\ Running
  /\ state.nextSeq < MaxSeq /\ Len(state.emitted) < MaxEmitted
  /\ state' = callAsync(state) /\ ref' = callAsync(ref)
  /\ UNCHANGED <<frames, result, outbound>>

CallIgnored ==
  /\ Running
  /\ Len(state.emitted) < MaxEmitted
  /\ state' = callIgnored(state) /\ ref' = callIgnored(ref)
  /\ UNCHANGED <<frames, result, outbound>>

ChildScope ==
  /\ Running
  /\ state.nextScopeIdx <= MaxScopes
  /\ \E type \in ScopeTypes : (state' = childScopeEnter(state, type)
                               /\ ref' = childScopeEnter(ref, type))
  /\ frames' = Append(frames, [kind |-> "childScope", thread |-> 0, scope |-> state.nextScopeIdx])
  /\ UNCHANGED <<result, outbound>>

\* user code creates a promise of its own (new Promise, an async call): the hook's
\* 'init' runs for it under the current scope; promises are numbered after the scopes
NewPromise ==
  /\ Running
  /\ \E p \in MaxScopes + 1 .. MaxScopes + MaxPromises :
       /\ p \notin DOMAIN state.promiseData
       /\ \A q \in MaxScopes + 1 .. p - 1 : q \in DOMAIN state.promiseData
       /\ \E pp \in {Undefined} \cup DOMAIN state.promiseData
                      \cup ({p + 1} \cap (1 .. MaxScopes + MaxPromises)) :
            state' = hookInit(state, p, pp) /\ ref' = hookInit(ref, p, pp)
  /\ UNCHANGED <<frames, result, outbound>>

\* the end of a thread's code segment: it awaits, returns, throws an error of its own
\* ("throw") or lets the rejection of the promise it awaited escape ("rethrow")
leaveThread(s, t, how) ==
  LET kind == s.threads[t].kind
      s1 == [s EXCEPT !.threads[t].status =
                        CASE how = "await" -> "waiting" [] how = "return" -> "resolved" [] OTHER -> "rejected"]
      value == IF how = "rethrow" THEN s.threads[t].error ELSE ValueOf(t)
  IN CASE how = "await" -> s1
       [] kind = "main" ->
            enqueue(s1, Microtask(IF how = "return" THEN "completeWorkflow" ELSE "failWorkflow",
                                  t, Undefined, value))
       [] kind = "signal" ->
            IF how # "return" THEN enqueue(s1, Microtask("failWorkflow", t, Undefined, value)) ELSE s1
       [] OTHER -> enqueue(s1, Microtask("settle", t, s.threads[t].scope, Nullish))

\* the query handler returned a value, threw (an error, or null or undefined), or
\* returned a promise that resolves or rejects (with an error, or with null or undefined)
leaveQuery(s, how) ==
  CASE how = "return" -> completeQuery(s, ValueOf(0))
    [] how = "throw" -> failQuery(s, ValueOf(0))
    [] how = "throwNullish" -> failQuery(s, Nullish)
    [] how = "resolved" -> enqueue(s, Microtask("completeQuery", 0, Undefined, ValueOf(0)))
    [] how = "rejected" -> enqueue(s, Microtask("failQuery", 0, Undefined, ValueOf(0)))
    [] OTHER -> enqueue(s, Microtask("failQuery", 0, Undefined, Nullish))

QueryOutcomes == {"return", "throw", "throwNullish", "resolved", "rejected", "rejectedNullish"}

ThreadOutcomes == {"return", "throw", "await"}

\* a continuation can also let the rejection it was resumed with escape
ResumeOutcomes(s, t) ==
  ThreadOutcomes \cup (IF s.threads[t].error.nullish THEN {} ELSE {"rethrow"})

\* fn() of childScope is over
ReturnFromScope ==
  /\ Running
  /\ Last(frames).kind = "childScope"
  /\ \E how \in ThreadOutcomes :
       /\ how = "await" => Len(state.threads) < MaxThreads
       /\ (state' = childScopeLeave(state, Last(frames).scope, how)
           /\ ref' = childScopeLeave(ref, Last(frames).scope, how))
  /\ frames' = Front(frames)
  /\ UNCHANGED <<result, outbound>>

\* the handler's code is over: what it leaves behind
leaveHandler(s, f, how) ==
  IF f.kind = "queryWorkflow" THEN leaveQuery(s, how) ELSE leaveThread(s, f.thread, how)

\* the user code a handler called is over and activate returns
ReturnFromHandler ==
  /\ Running
  /\ Last(frames).kind \in {"startWorkflow", "signalWorkflow", "queryWorkflow"}
  /\ \E how \in IF Last(frames).kind = "queryWorkflow" THEN QueryOutcomes ELSE ThreadOutcomes :
       /\ (Last(frames).kind = "queryWorkflow" /\ how \in {"return", "throw"}) =>
            Len(state.emitted) < MaxEmitted
       /\ (state' = activateReturn(leaveHandler(state, Last(frames), how))
           /\ ref' = activateReturn(leaveHandler(ref, Last(frames), how)))
       /\ result' = activateResult(leaveHandler(state, Last(frames), how), Last(frames).kind, TRUE)
  /\ frames' = <<>>
  /\ UNCHANGED outbound

\* ------------------------------------------------------------ microtasks
\* the head of the microtask queue is taken
dequeue(s) == [s EXCEPT !.microtasks = Tail(@)]

\* a continuation of user code starts to run, after the hook's 'before'
resume(s) ==
  LET t == Head(s.microtasks).thread
  IN hookBefore([dequeue(s) EXCEPT !.threads[t].status = "running"], threadData(s, t))

Resume ==
  /\ frames = <<>> /\ state.microtasks # <<>>
  /\ Head(state.microtasks).task = "resume"
  /\ state' = resume(state) /\ ref' = resume(ref)
  /\ frames' = <<[kind |-> "resume", thread |-> Head(state.microtasks).thread, scope |-> 0]>>
  /\ UNCHANGED <<result, outbound>>

\* the continuation is over, then the hook's 'after'
ReturnFromResume ==
  /\ Running
  /\ Last(frames).kind = "resume"
  /\ \E how \in ResumeOutcomes(state, Last(frames).thread) :
       /\ state' = hookAfter(leaveThread(state, Last(frames).thread, how),
                             threadData(state, Last(frames).thread))
       /\ ref' = hookAfter(leaveThread(ref, Last(frames).thread, how),
                           threadData(ref, Last(frames).thread))
  /\ frames' = <<>>
  /\ UNCHANGED <<result, outbound>>

\* a reaction registered by the engine runs between the hook's 'before' and 'after':
\* .then(completeWorkflow), .catch(failWorkflow), .then(completeQuery), .catch(failQuery);
\* what it throws rejects a promise nobody handles
reaction(s) ==
  LET m == Head(s.microtasks)
      s1 == hookBefore(dequeue(s), rootData)
      s2 == CASE m.task = "completeWorkflow" -> completeWorkflow(s1, m.value)
              [] m.task = "failWorkflow" -> failWorkflow(s1, m.value)
              [] m.task = "completeQuery" -> completeQuery(s1, m.value)
              [] OTHER -> failQuery(s1, m.value)
  IN [hookAfter(s2, rootData) EXCEPT !.thrown = "none"]

React ==
  /\ frames = <<>> /\ state.microtasks # <<>>
  /\ Head(state.microtasks).task \in {"completeWorkflow", "failWorkflow", "completeQuery", "failQuery"}
  /\ state' = reaction(state) /\ ref' = reaction(ref)
  /\ UNCHANGED <<frames, result, outbound>>

Reaction == Len(state.emitted) < MaxEmitted /\ React

\* the executor of childScope resumes after `await promise` and settles the scope's
\* promise, which thread t awaits (0: nobody)
settleScope(s, t) ==
  LET m == Head(s.microtasks)
      data == [scope |-> m.scope, cancellable |-> FALSE, settled |-> FALSE]
  IN hookAfter(wake(settle(hookBefore(dequeue(s), data), m.scope), t), data)

SettleScope ==
  /\ frames = <<>> /\ state.microtasks # <<>>
  /\ Head(state.microtasks).task = "settle"
  /\ \E t \in Awaiters(state) : (state' = settleScope(state, t)
                                 /\ ref' = settleScope(ref, t))
  /\ UNCHANGED <<frames, result, outbound>>

\* ------------------------------------------------------- specifications
\* timers, external calls, signals and cancellation under a server that fires the
\* timers it was asked to start
Next ==
  \/ InitWorkflow
  \/ StartWorkflow
  \/ CancelWorkflow
  \/ FireTimer
  \/ SignalWorkflow
  \/ ConcludeActivation
  \/ ResolveExternalDependencies
  \/ SetTimeout
  \/ ClearTimeout
  \/ CallAsync
  \/ CallIgnored
  \/ ReturnFromHandler
  \/ Resume
  \/ ReturnFromResume
  \/ Reaction

Spec == Init /\ [][Next]_vars

\* queries and the jobs that touch no workflow code
NextQuery ==
  \/ InitWorkflow
  \/ StartWorkflow
  \/ QueryWorkflow
  \/ UpdateRandomSeed
  \/ RemoveFromCache
  \/ ConcludeActivation
  \/ SetTimeout
  \/ CallIgnored
  \/ ReturnFromHandler
  \/ Reaction

SpecQuery == Init /\ [][NextQuery]_vars

\* cancellation scopes
NextScopes ==
  \/ InitWorkflow
  \/ StartWorkflow
  \/ CancelWorkflow
  \/ FireTimer
  \/ ConcludeActivation
  \/ SetTimeout
  \/ ChildScope
  \/ ReturnFromScope
  \/ ReturnFromHandler
  \/ Resume
  \/ ReturnFromResume
  \/ Reaction
  \/ SettleScope

SpecScopes == Init /\ [][NextScopes]_vars

\* the promise hook: user code that opens scopes and creates promises, and the
\* continuations that run afterwards
NextHook ==
  \/ InitWorkflow
  \/ StartWorkflow
  \/ ChildScope
  \/ NewPromise
  \/ ReturnFromScope
  \/ ReturnFromHandler
  \/ Resume
  \/ ReturnFromResume
  \/ Reaction
  \/ SettleScope

SpecHook == Init /\ [][NextHook]_vars

\* awaited external calls under a host that delivers results in batches
NextExternal ==
  \/ InitWorkflow
  \/ StartWorkflow
  \/ ConcludeActivation
  \/ DeliverResults
  \/ CallAsync
  \/ ReturnFromHandler
  \/ Resume
  \/ ReturnFromResume
  \/ Reaction

SpecExternal == Init /\ [][NextExternal]_vars

\* the host's activation cycle: jobs, then conclusions, each pending one answered before
\* the next call
HostCalls ==
  \/ ~Answering /\ InitWorkflow
  \/ ~Answering /\ StartWorkflow
  \/ ~Answering /\ state.pendingExternalCalls = <<>> /\ ResolveExternalDependencies

\* user code and the microtask queue run to completion
UserCode == ReturnFromHandler \/ Resume \/ ReturnFromResume \/ React

NextLive ==
  \/ HostCalls
  \/ HostConclude
  \/ AnswerPending
  \/ CallAsync
  \/ CallIgnored
  \/ UserCode

SpecLive ==
  /\ Init /\ [][NextLive]_vars
  /\ WF_vars(UserCode) /\ WF_vars(AnswerPending) /\ WF_vars(HostConclude)

\* activities under a server that reports the outcome of the activities it was asked
\* to schedule
NextActivity ==
  \/ InitWorkflow
  \/ StartWorkflow
  \/ ResolveActivity
  \/ ConcludeActivation
  \/ ScheduleActivity
  \/ ReturnFromHandler
  \/ Resume
  \/ ReturnFromResume
  \/ Reaction

SpecActivity == Init /\ [][NextActivity]_vars

\* ------------------------------------------- the timer workflows of the tests
\* The workflows 'sleep', 'cancel-timer-immediately' and 'cancel-timer-with-delay' of
\* test-integration.ts, by the engine calls they make: sleep starts a timer and awaits
\* it; cancel-timer-immediately starts a timer and cancels it before returning;
\* cancel-timer-with-delay starts T0 then T1, awaits T1 and cancels T0 after it.  Which
\* of the three is running shows in the record of the run.
OnlyStarts(s, n) ==
  Len(s.emitted) = n /\ \A i \in DOMAIN s.emitted : s.emitted[i].type = "startTimer"

InMain == frames # <<>> /\ Last(frames).kind = "startWorkflow"

InContinuation == frames # <<>> /\ Last(frames).kind = "resume"

\* the timer main awaits: the last one it started
AwaitedTimer(s) == Cardinality({i \in DOMAIN s.emitted : s.emitted[i].type = "startTimer"}) - 1

\* main starts its first timer, or (cancel-timer-with-delay) its second
TestSetTimeout ==
  /\ InMain
  /\ OnlyStarts(state, 0) \/ OnlyStarts(state, 1)
  /\ \E ms \in TestDurations : (state' = setTimeout(state, ms)
                                 /\ ref' = setTimeout(ref, ms))
  /\ UNCHANGED <<frames, result, outbound>>

\* main cancels T0: at once (cancel-timer-immediately), or in the continuation that
\* runs when T1 has fired (cancel-timer-with-delay)
TestClearTimeout ==
  /\ (InMain /\ OnlyStarts(state, 1)) \/ (InContinuation /\ OnlyStarts(state, 2))
  /\ state' = clearTimeout(state, 0) /\ ref' = clearTimeout(ref, 0)
  /\ UNCHANGED <<frames, result, outbound>>

\* main awaits the timer it started last (sleep, cancel-timer-with-delay), or the timer
\* it has cancelled, which leaves it waiting (cancel-timer-immediately)
TestAwait ==
  /\ InMain
  /\ \/ OnlyStarts(state, 1) \/ OnlyStarts(state, 2)
     \/ Len(state.emitted) = 2 /\ Last(state.emitted).type = "cancelTimer"
  /\ ReturnFromHandler
  /\ state'.threads[Last(frames).thread].status = "waiting"

\* main returns having cancelled its timer (cancel-timer-immediately)
TestReturn ==
  /\ InMain
  /\ Len(state.emitted) = 2 /\ Last(state.emitted).type = "cancelTimer"
  /\ ReturnFromHandler
  /\ state'.threads[Last(frames).thread].status = "resolved"

\* the server fires a pending timer: the callback of the timer main awaits resumes main,
\* that of another timer does nothing
TestFireTimer ==
  \E a \in Activations, h \in Handles :
    /\ h \in DOMAIN state.completions
    /\ Activate(a, Job("fireTimer", seqToId(h), FALSE, Undefined), FALSE,
                IF h = AwaitedTimer(state) /\ 1 \in Awaiters(state) THEN 1 ELSE 0)

\* the server fires a timer that is not pending (never started, fired or cancelled)
FireStaleTimer ==
  \E a \in Activations, h \in Handles :
    /\ h \notin DOMAIN state.completions
    /\ Activate(a, Job("fireTimer", seqToId(h), FALSE, Undefined), FALSE, 0)

\* the continuation of main returns: after the timer (sleep), after cancelling T0
\* (cancel-timer-with-delay)
TestFinish ==
  /\ InContinuation
  /\ OnlyStarts(state, 1) \/ (Len(state.emitted) = 3 /\ Last(state.emitted).type = "cancelTimer")
  /\ ReturnFromResume
  /\ state'.threads[Last(frames).thread].status = "resolved"

NextTimers ==
  \/ InitWorkflow
  \/ StartWorkflow
  \/ TestFireTimer
  \/ FireStaleTimer
  \/ ConcludeActivation
  \/ TestSetTimeout
  \/ TestClearTimeout
  \/ TestAwait
  \/ TestReturn
  \/ Resume
  \/ TestFinish
  \/ React

SpecTimers == Init /\ [][NextTimers]_vars

\* ------------------------------------------------------------ properties
IsTerminal(e) == e.type \in {"completeWorkflowExecution", "failWorkflowExecution"}

IsResponse(e) == e.type \in {"respondToQuery.succeeded", "respondToQuery.failedWithMessage"}

\* a host call of activate for a job that is not a query, made in the pre-state
NonQueryJob ==
  Quiescent /\ result'.op \in {"activate", "running"} /\ result'.variant # "queryWorkflow"

\* C1: once completed is true, activate on a job that is not a query returns
\* processed = false without throwing and without entering a handler; it leaves the
\* command buffer, the completion table, nextSeq, cancelled and the scope structures
\* as they were, and it returns and empties the pending external-call buffer.
SkipsWhenCompleted ==
  [][(NonQueryJob /\ state.completed) =>
       /\ result'.op = "activate" /\ ~result'.processed /\ result'.error = "none"
       /\ result'.pendingExternalCalls = state.pendingExternalCalls
       /\ state'.pendingExternalCalls = <<>>
       /\ state'.commands = state.commands
       /\ state'.emitted = state.emitted
       /\ state'.completions = state.completions
       /\ state'.nextSeq = state.nextSeq
       /\ state'.cancelled = state.cancelled
       /\ state'.scopeStack = state.scopeStack
       /\ state'.childScopes = state.childScopes
       /\ state'.scopes = state.scopes
       /\ state'.nextScopeIdx = state.nextScopeIdx
       /\ state'.threads = state.threads]_vars

\* a job was skipped on a completed workflow and handed over pending external calls
SkippedWithPendingCalls ==
  /\ state.completed
  /\ result.op = "activate" /\ result.variant \in {"fireTimer", "signalWorkflow", "cancelWorkflow"}
  /\ ~result.processed /\ result.error = "none"
  /\ result.pendingExternalCalls # <<>>

\* the number of query answers given or owed: respondToQuery commands pushed,
\* reactions of query promises queued, and the query handler that is running
Answers(s, fr) ==
  Cardinality({i \in DOMAIN s.emitted : IsResponse(s.emitted[i])})
    + Cardinality({i \in DOMAIN s.microtasks : s.microtasks[i].task \in {"completeQuery", "failQuery"}})
    + (IF fr # <<>> /\ fr[1].kind = "queryWorkflow" THEN 1 ELSE 0)

Terminals(s) == Cardinality({i \in DOMAIN s.emitted : IsTerminal(s.emitted[i])})

\* a host call of activate for a query job on an initialised workflow
QueryJob ==
  Quiescent /\ state.info /\ result'.op \in {"activate", "running"} /\ result'.variant = "queryWorkflow"

\* a step of the handling of a query: the job, the handler's code and its end, the
\* reaction of the promise it returned
QueryHandling ==
  \/ QueryJob
  \/ frames # <<>> /\ frames[1].kind = "queryWorkflow"
  \/ frames = <<>> /\ state.microtasks # <<>> /\ Head(state.microtasks).task \in {"completeQuery", "failQuery"}

\* C2: every queryWorkflow job on an initialised workflow, completed or not, is
\* processed and answered by exactly one respondToQuery command (each query job adds one
\* answer owed, every answer owed becomes one command: succeeded when the handler returns
\* or its promise resolves, failedWithMessage when it is missing, throws or rejects, and
\* nothing else adds one); handling a query changes neither completed nor the terminal
\* commands.
QueryAnsweredOnce ==
  [][/\ QueryJob => /\ result'.error = "none"
                    /\ Answers(state', frames') = Answers(state, frames) + 1
                    /\ (result'.op = "activate" =>
                          result'.processed /\ Last(state'.emitted).type = "respondToQuery.failedWithMessage")
     /\ ~QueryJob => Answers(state', frames') = Answers(state, frames)
     /\ (frames # <<>> /\ frames[1].kind = "queryWorkflow" /\ frames' = <<>>) =>
          result'.processed /\ result'.error = "none"
     /\ QueryHandling => state'.completed = state.completed /\ Terminals(state') = Terminals(state)]_vars

\* an entry of the record that was given a fresh sequence number
Allocated(e) == e.type = "startTimer" \/ (e.type = "externalCall" /\ e.seq # Undefined)

\* an entry of the record that carries a sequence number
CarriesSeq(e) == Allocated(e) \/ e.type = "cancelTimer"

seqOf(e) == IF e.type = "externalCall" THEN e.seq ELSE parseInt(e.timerId)

\* C3 (as stated): the sequence numbers carried by startTimer, cancelTimer and awaited
\* external calls are strictly increasing in emission order, so no two are equal.
CarriedSeqsIncrease ==
  \A i, j \in {k \in DOMAIN state.emitted : CarriesSeq(state.emitted[k])} :
    i < j => seqOf(state.emitted[i]) < seqOf(state.emitted[j])

\* C3: the sequence numbers given to startTimer commands and to awaited external calls
\* are strictly increasing in emission order, so no two are equal; a cancelTimer carries
\* the handle clearTimeout was given, not a number of its own.
AllocatedSeqsIncrease ==
  \A i, j \in {k \in DOMAIN state.emitted : Allocated(state.emitted[k])} :
    i < j => seqOf(state.emitted[i]) < seqOf(state.emitted[j])

\* a timer was started and cancelled, and an external call awaited after that
AllocatedAroundCancel ==
  \E i, j, k \in DOMAIN state.emitted :
    /\ i < j /\ j < k
    /\ state.emitted[i].type = "startTimer"
    /\ state.emitted[j].type = "cancelTimer" /\ state.emitted[j].timerId = state.emitted[i].timerId
    /\ state.emitted[k].type = "externalCall" /\ state.emitted[k].seq # Undefined

\* C4: a started timer has at most one cancelTimer command with its timerId, and that
\* command comes after the timer's startTimer command.
CancelParity ==
  \A i \in DOMAIN state.emitted :
    state.emitted[i].type = "startTimer" =>
      LET cancels == {j \in DOMAIN state.emitted :
                        /\ state.emitted[j].type = "cancelTimer"
                        /\ state.emitted[j].timerId = state.emitted[i].timerId}
      IN Cardinality(cancels) <= 1 /\ \A j \in cancels : i < j

\* C5: when concludeActivation has returned, the scope stack is the root scope alone.
ScopeBalance == result.op = "concludeActivation" => state.scopeStack = <<0>>

\* an activation was concluded after child scopes were opened and one of them settled
ConcludedAfterScopes ==
  /\ result.op = "concludeActivation"
  /\ state.nextScopeIdx > MaxScopes
  /\ \E idx \in DOMAIN state.promiseData : state.promiseData[idx].settled
  /\ \E t \in DOMAIN state.threads : state.threads[t].status = "resolved"

\* C6: once an activation that emitted completeWorkflowExecution has been concluded,
\* every entry of the completion table belongs to an awaited external call.
CompletionHygiene ==
  (\E i \in DOMAIN outbound : outbound[i].type = "completeWorkflowExecution") =>
    \A seq \in DOMAIN state.completions : state.completions[seq].kind = "external"

\* an engine without what conclusions take away
Unconcluded(s) == [s EXCEPT !.commands = <<>>, !.pendingExternalCalls = <<>>]

\* C8: the commands of the conclusions so far, followed by the command buffer, are the
\* command buffer of an engine that was given the same jobs and was never concluded, and
\* apart from the buffers the two engines are in the same state: where the activations
\* end changes nothing in the concatenation of the commands.
BatchIndependence ==
  /\ outbound \o state.commands = ref.commands
  /\ Unconcluded(state) = Unconcluded(ref)

\* a conclusion took commands and the jobs after it produced more
ConcludedBetweenCommands == outbound # <<>> /\ state.commands # <<>>

\* the reaction of thread t's promise is still queued
ReactionQueued(s, t) ==
  \E i \in DOMAIN s.microtasks :
    s.microtasks[i].thread = t /\ s.microtasks[i].task \in {"completeWorkflow", "failWorkflow"}

\* thread t's promise has settled and its reaction has run
Settled(s, t, status) == s.threads[t].status = status /\ ~ReactionQueued(s, t)

\* the terminal commands of a type that carry what thread t returned or threw
TerminalsOf(type, t) ==
  {i \in DOMAIN state.emitted :
     state.emitted[i].type = type /\ state.emitted[i].detail = ValueOf(t).message}

SignalFailed(s) ==
  \E t \in DOMAIN s.threads : s.threads[t].kind = "signal" /\ s.threads[t].status = "rejected"

\* C9: once main's promise has resolved there is exactly one completeWorkflowExecution
\* carrying its result and no failWorkflowExecution for it; once it has rejected, exactly
\* one failWorkflowExecution carrying its failure and no completeWorkflowExecution; in
\* both cases completed is true; before that there is no terminal command for main, and
\* completed is false unless a signal handler has failed.
MainSettlesOnce ==
  \A t \in DOMAIN state.threads :
    state.threads[t].kind = "main" =>
      /\ Settled(state, t, "resolved") =>
           /\ Cardinality(TerminalsOf("completeWorkflowExecution", t)) = 1
           /\ TerminalsOf("failWorkflowExecution", t) = {}
           /\ state.completed
      /\ Settled(state, t, "rejected") =>
           /\ Cardinality(TerminalsOf("failWorkflowExecution", t)) = 1
           /\ TerminalsOf("completeWorkflowExecution", t) = {}
           /\ state.completed
      /\ ~(Settled(state, t, "resolved") \/ Settled(state, t, "rejected")) =>
           /\ TerminalsOf("completeWorkflowExecution", t) = {}
           /\ TerminalsOf("failWorkflowExecution", t) = {}
           /\ ~SignalFailed(state) => ~state.completed

\* main started a timer and returned, and the workflow is completed with its result
MainResolved ==
  \E t \in DOMAIN state.threads :
    /\ state.threads[t].kind = "main" /\ Settled(state, t, "resolved")
    /\ state.completed
    /\ TerminalsOf("completeWorkflowExecution", t) # {}
    /\ \E i \in DOMAIN state.emitted : state.emitted[i].type = "startTimer"

\* the failure of every signal handler whose rejection has been reacted to is recorded
FailedSignalsRecorded(s) ==
  \A t \in DOMAIN s.threads :
    (s.threads[t].kind = "signal" /\ Settled(s, t, "rejected")) =>
      /\ s.completed
      /\ \E i \in DOMAIN s.emitted :
           /\ s.emitted[i].type = "failWorkflowExecution"
           /\ s.emitted[i].detail = ValueOf(t).message

\* C10: when a signal handler has thrown or its promise rejected, a
\* failWorkflowExecution carrying the error's message has been appended and completed is
\* true, and every later job that is not a query is skipped (processed = false).
SignalFailureFails ==
  [][/\ FailedSignalsRecorded(state')
     /\ (NonQueryJob /\ SignalFailed(state)) => result'.op = "activate" /\ ~result'.processed]_vars

\* a signal handler failed and a later job was skipped
SkippedAfterSignalFailure ==
  /\ SignalFailed(state)
  /\ state.completed
  /\ \E i \in DOMAIN state.emitted : state.emitted[i].type = "failWorkflowExecution"
  /\ result.op = "activate" /\ result.variant \in {"fireTimer", "signalWorkflow", "cancelWorkflow"}
  /\ ~result.processed /\ result.error = "none"

\* a host call of activate that dispatches a resolveActivity job with a result of the
\* given variant for an activity whose completion is in the table, made in the pre-state
ActivityJobOf(status) ==
  /\ Quiescent /\ state.info /\ ~state.completed
  /\ result'.op = "activate" /\ result'.variant = "resolveActivity"
  /\ result'.input.status = status
  /\ parseInt(result'.input.id) \in DOMAIN state.completions

\* the threads whose continuation the step queued
Woken == {t \in DOMAIN state.threads : state.threads[t].status = "waiting" /\ state'.threads[t].status = "ready"}

\* every thread the step woke was woken by a rejection with the message
RejectedWith(message) ==
  \A t \in Woken : ~state'.threads[t].error.nullish /\ state'.threads[t].error.message = message

\* the scope recorded in the completion of the job's activity
ScopeOfJob == state.completions[parseInt(result'.input.id)].scope

\* a continuation of main that was resumed with the rejection `message` ends rejected
MainLetsEscape(message) ==
  /\ frames # <<>> /\ frames[1].kind = "resume" /\ frames' = <<>>
  /\ state.threads[frames[1].thread].kind = "main"
  /\ ~state.threads[frames[1].thread].error.nullish
  /\ state.threads[frames[1].thread].error.message = message
  /\ state'.threads[frames[1].thread].status = "rejected"

\* the reaction to a rejection of main with `message` runs
FailureReaction(message) ==
  /\ frames = <<>> /\ state.microtasks # <<>> /\ state'.microtasks = Tail(state.microtasks)
  /\ Head(state.microtasks).task = "failWorkflow"
  /\ ~Head(state.microtasks).value.nullish /\ Head(state.microtasks).value.message = message

\* C11: a resolveActivity job whose result is canceled consumes the activity's completion
\* and calls completeCancel of the scope the completion recorded with a Cancellation
\* error 'Activity cancelled' (a completeCancel that rejects settles the scope's promise
\* and rejects its awaiter with that message); a Cancellation error completeCancel throws
\* back is swallowed and the job is processed, any other error reaches the host; a
\* continuation of main that lets the rejection escape, or throws an error of its own,
\* queues failWorkflow with that error, and the reaction to the escaped rejection appends
\* failWorkflowExecution carrying 'Activity cancelled' and sets completed.
CanceledActivity ==
  [][/\ ActivityJobOf("canceled") =>
          /\ parseInt(result'.input.id) \notin DOMAIN state'.completions
          /\ state'.commands = state.commands
          /\ result'.input.completeCancel = "rejects" =>
               /\ result'.error = "none" /\ result'.processed
               /\ state'.promiseData[ScopeOfJob].settled
               /\ RejectedWith("Activity cancelled")
          /\ result'.input.completeCancel = "rethrows" =>
               /\ result'.error = "none" /\ result'.processed
               /\ Woken = {}
               /\ state'.promiseData = state.promiseData
          /\ result'.input.completeCancel = "throws" =>
               /\ result'.error = "Error" /\ ~result'.processed
               /\ Woken = {}
     /\ MainLetsEscape("Activity cancelled") =>
          /\ state'.microtasks # <<>>
          /\ Last(state'.microtasks).task = "failWorkflow"
          /\ Last(state'.microtasks).value \in {state.threads[frames[1].thread].error,
                                                 ValueOf(frames[1].thread)}
     /\ FailureReaction("Activity cancelled") =>
          /\ state'.completed
          /\ Len(state'.emitted) = Len(state.emitted) + 1
          /\ Last(state'.emitted).type = "failWorkflowExecution"
          /\ Last(state'.emitted).detail = "Activity cancelled"
          /\ Last(state'.commands).type = "failWorkflowExecution"]_vars

\* an activity reported canceled, main let the rejection escape and the run has failed
\* with the cancellation's message
FailedByCanceledActivity ==
  /\ state.completed
  /\ \E i \in DOMAIN state.emitted :
       /\ state.emitted[i].type = "failWorkflowExecution"
       /\ state.emitted[i].detail = "Activity cancelled"
  /\ \E t \in DOMAIN state.threads :
       /\ state.threads[t].kind = "main" /\ state.threads[t].status = "rejected"
       /\ ~state.threads[t].error.nullish
  /\ state.completions = EmptyMap

\* every thread the step woke was woken by a resolution with the value
ResolvedWith(value) ==
  \A t \in Woken :
    /\ state'.threads[t].error.nullish
    /\ \E i \in DOMAIN state'.microtasks :
         /\ state'.microtasks[i].task = "resume" /\ state'.microtasks[i].thread = t
         /\ ~state'.microtasks[i].value.nullish /\ state'.microtasks[i].value.message = value

\* the step settled the promise of the job's activity, once: the promise was pending and
\* is settled, and at most one continuation was queued, that of its awaiter
SettledOnce ==
  /\ ~state.promiseData[ScopeOfJob].settled /\ state'.promiseData[ScopeOfJob].settled
  /\ Cardinality(Woken) <= 1
  /\ Len(state'.microtasks) = Len(state.microtasks) + Cardinality(Woken)

\* C12: a resolveActivity job with a completed or failed result removes the completion of
\* its activityId and settles the activity's promise once, without error: completed with
\* a payload that decodes to a value resolves with that value, completed with an absent
\* or undecodable payload rejects with 'Failed to convert from payload', failed rejects
\* with the failure's message; the reaction to an activity failure main let escape
\* appends failWorkflowExecution carrying that message and sets completed.
ActivitySettledByVariant ==
  [][/\ ActivityJobOf("completed") =>
          /\ parseInt(result'.input.id) \notin DOMAIN state'.completions
          /\ result'.error = "none" /\ result'.processed
          /\ SettledOnce
          /\ state'.commands = state.commands
          /\ (result'.input.payload.present /\ result'.input.payload.decodable) =>
               ResolvedWith(result'.input.payload.data)
          /\ ~(result'.input.payload.present /\ result'.input.payload.decodable) =>
               RejectedWith("Failed to convert from payload")
     /\ ActivityJobOf("failed") =>
          /\ parseInt(result'.input.id) \notin DOMAIN state'.completions
          /\ result'.error = "none" /\ result'.processed
          /\ SettledOnce
          /\ state'.commands = state.commands
          /\ RejectedWith(result'.input.message)
     /\ MainLetsEscape("Fail me") =>
          /\ state'.microtasks # <<>>
          /\ Last(state'.microtasks).task = "failWorkflow"
          /\ Last(state'.microtasks).value \in {state.threads[frames[1].thread].error,
                                                 ValueOf(frames[1].thread)}
     /\ FailureReaction("Fail me") =>
          /\ state'.completed
          /\ Len(state'.emitted) = Len(state.emitted) + 1
          /\ Last(state'.emitted).type = "failWorkflowExecution"
          /\ Last(state'.emitted).detail = "Fail me"]_vars

\* an activity failed, main let the failure escape and the run has failed with the
\* failure's message
FailedByActivityFailure ==
  /\ state.completed
  /\ result.op = "activate" /\ result.variant = "resolveActivity" /\ result.input.status = "failed"
  /\ \E i \in DOMAIN state.emitted :
       /\ state.emitted[i].type = "failWorkflowExecution"
       /\ state.emitted[i].detail = "Fail me"
  /\ \E t \in DOMAIN state.threads :
       state.threads[t].kind = "main" /\ state.threads[t].status = "rejected"

\* tsToMs(ts), as the tests read startToFireTimeout
tsToMs(ts) == ts.seconds * 1000 + ts.nanos \div 1000000

TimerCommands(s) == {i \in DOMAIN s.emitted : s.emitted[i].type \in {"startTimer", "cancelTimer"}}

\* the run is one of the workflow 'sleep': main has left its first segment with a single
\* timer command behind it
SleepRun(s, fr) ==
  /\ HasMain(s) /\ ~(fr # <<>> /\ Last(fr).kind = "startWorkflow")
  /\ Cardinality(TimerCommands(s)) = 1

Completed(s) == \E i \in DOMAIN s.emitted : s.emitted[i].type = "completeWorkflowExecution"

\* C13: in a run of a workflow that starts one timer of d milliseconds, awaits it and
\* does nothing else asynchronous, the first command is startTimer with timerId "0" and
\* a startToFireTimeout that reads back as d, it stays the only timer command, the
\* timer's completion leaves the table only by a processed fireTimer job with timerId
\* "0", and completeWorkflowExecution is emitted only when that has happened.
SleepCommands ==
  [][SleepRun(state', frames') =>
       /\ state'.emitted[1].type = "startTimer"
       /\ state'.emitted[1].timerId = seqToId(0)
       /\ tsToMs(state'.emitted[1].detail) \in TestDurations
       /\ msToTs(tsToMs(state'.emitted[1].detail)) = state'.emitted[1].detail
       /\ TimerCommands(state') = {1}
       /\ Len(state'.emitted) > 1 =>
            /\ Len(state'.emitted) = 2 /\ state'.emitted[2].type = "completeWorkflowExecution"
       /\ Completed(state') => 0 \notin DOMAIN state'.completions
       /\ (0 \in DOMAIN state.completions /\ 0 \notin DOMAIN state'.completions) =>
            /\ result'.op = "activate" /\ result'.variant = "fireTimer"
            /\ result'.input.id = seqToId(0) /\ result'.processed
            /\ ~Completed(state')]_vars

\* sleep ran to its end: one timer of 10000 ms, fired, and the workflow completed, its
\* commands handed over in two conclusions
SleepCompleted ==
  /\ SleepRun(state, frames)
  /\ state.completed /\ Completed(state)
  /\ tsToMs(state.emitted[1].detail) = 10000
  /\ Len(outbound) = 2 /\ state.commands = <<>>

\* the run is one of the workflow 'cancel-timer-with-delay': its first two commands
\* start timers
DelayRun(s) ==
  Len(s.emitted) >= 2 /\ s.emitted[1].type = "startTimer" /\ s.emitted[2].type = "startTimer"

\* the commands handed over so far are the first commands of the run, in order
EncodedInOrder ==
  /\ Len(outbound) <= Len(state.emitted)
  /\ \A i \in DOMAIN outbound :
       outbound[i].type = state.emitted[i].type /\ outbound[i].timerId = state.emitted[i].timerId

\* C14: in a run that starts T0 then T1 and cancels T0 in the continuation T1's firing
\* resumes, the timers get timerId "0" and "1" in the order they were opened, the third
\* command is cancelTimer carrying T0's timerId "0", it is pushed only when the
\* completion of T1 has left the table, which only a processed fireTimer job with
\* timerId "1" does, and the commands are handed over in that order.
DelayedCancelCommands ==
  [][DelayRun(state') =>
       /\ state'.emitted[1].timerId = seqToId(0)
       /\ state'.emitted[2].timerId = seqToId(1)
       /\ Len(state'.emitted) >= 3 =>
            /\ state'.emitted[3].type = "cancelTimer"
            /\ state'.emitted[3].timerId = state'.emitted[1].timerId
            /\ 1 \notin DOMAIN state'.completions
       /\ \A i \in DOMAIN state'.emitted : i > 3 => state'.emitted[i].type \notin {"startTimer", "cancelTimer"}
       /\ (Len(state.emitted) = 2 /\ Len(state'.emitted) = 3) => 1 \notin DOMAIN state.completions
       /\ (1 \in DOMAIN state.completions /\ 1 \notin DOMAIN state'.completions) =>
            /\ result'.op = "activate" /\ result'.variant = "fireTimer"
            /\ result'.input.id = seqToId(1) /\ result'.processed
            /\ Len(state'.emitted) = 2
       /\ EncodedInOrder']_vars

\* cancel-timer-with-delay ran to its end with delays of 10000 and 1 ms: the sequence
\* counter has moved past the cancellation and all four commands were handed over
DelayedCancelCompleted ==
  /\ DelayRun(state)
  /\ Len(state.emitted) = 4 /\ state.emitted[3].type = "cancelTimer"
  /\ state.emitted[4].type = "completeWorkflowExecution"
  /\ state.nextSeq = 3
  /\ tsToMs(state.emitted[1].detail) = 10000 /\ tsToMs(state.emitted[2].detail) = 1
  /\ Len(outbound) = 4 /\ result.op = "concludeActivation"

\* the run is one of the workflow 'cancel-timer-immediately': main started a timer and
\* cancelled it in the same segment of code
ImmediateRun(s) ==
  Len(s.emitted) >= 2 /\ s.emitted[1].type = "startTimer" /\ s.emitted[2].type = "cancelTimer"

\* a host call of activate for a fireTimer job with the timerId, made in the pre-state
FireTimerJob(id) ==
  Quiescent /\ result'.op = "activate" /\ result'.variant = "fireTimer" /\ result'.input.id = id

\* C15: when main starts a timer and cancels it before it returns, the cancelTimer
\* carries the timer's id, the commands handed over at any point are either none or
\* begin with the startTimer followed by its cancelTimer (never the startTimer alone),
\* every conclusion leaves the two commands together on one side, the timer is the only
\* one, and no fireTimer job for the timer is processed: whenever the server sends one,
\* activate fails or skips it, and no continuation is queued.
ImmediateCancelCommands ==
  [][/\ ImmediateRun(state') =>
          /\ state'.emitted[2].timerId = state'.emitted[1].timerId
          /\ TimerCommands(state') = {1, 2}
          /\ outbound' = <<>> \/ (/\ Len(outbound') >= 2
                                   /\ outbound'[1].type = "startTimer"
                                   /\ outbound'[2].type = "cancelTimer"
                                   /\ outbound'[2].timerId = outbound'[1].timerId)
          /\ EncodedInOrder'
          /\ 0 \notin DOMAIN state'.completions
          /\ \A th \in DOMAIN state'.threads : state'.threads[th].status # "ready"
     /\ (ImmediateRun(state) /\ FireTimerJob(state.emitted[1].timerId)) =>
          /\ ~(result'.processed /\ result'.error = "none")
          /\ state.completed \/ result'.error = "Error"
          /\ state'.microtasks = <<>>
          /\ state'.threads = state.threads]_vars

\* the timer's two commands were handed over together, and a fireTimer job the server
\* sent for the cancelled timer failed
CancelledTimerFired ==
  /\ ImmediateRun(state)
  /\ Len(outbound) = 2 /\ ~state.completed
  /\ result.op = "activate" /\ result.variant = "fireTimer"
  /\ result.input.id = state.emitted[1].timerId
  /\ result.error = "Error"

\* a host call of concludeActivation, made in the pre-state
ConcludeCall == Quiescent /\ result'.op = "concludeActivation"

\* C16: concludeActivation returns type pending exactly when the pending external-call
\* buffer is non-empty at the call; then it returns those calls, empties the pending
\* buffer and leaves the command buffer as it was, handing no command over; otherwise it
\* returns type complete, hands over all buffered commands and leaves the command buffer
\* empty.  Either way nothing else of the engine changes.
ConclusionByPendingCalls ==
  [][ConcludeCall =>
       /\ result'.type \in {"pending", "complete"}
       /\ result'.type = "pending" <=> state.pendingExternalCalls # <<>>
       /\ result'.type = "pending" =>
            /\ result'.pendingExternalCalls = state.pendingExternalCalls
            /\ state'.pendingExternalCalls = <<>>
            /\ state'.commands = state.commands
            /\ outbound' = outbound
       /\ result'.type = "complete" =>
            /\ result'.pendingExternalCalls = <<>>
            /\ outbound' = outbound \o state.commands
            /\ state'.commands = <<>>
            /\ state'.pendingExternalCalls = <<>>
       /\ Unconcluded(state') = Unconcluded(state)]_vars

\* a conclusion returned pending while commands were buffered, and they still are
PendingWithCommands ==
  /\ result.op = "concludeActivation" /\ result.type = "pending"
  /\ result.pendingExternalCalls # <<>>
  /\ state.commands # <<>>
  /\ state.pendingExternalCalls = <<>>

\* a host call of activate that dispatches a fireTimer or resolveActivity job whose id
\* parses to a sequence number with no entry in the completion table
StaleResolution ==
  /\ Quiescent /\ state.info /\ ~state.completed
  /\ result'.op = "activate" /\ result'.variant \in {"fireTimer", "resolveActivity"}
  /\ result'.input.id # NoId /\ result'.input.status # "absent"
  /\ parseInt(result'.input.id) \notin DOMAIN state.completions

\* C17: a resolution job whose sequence number has no entry in the completion table fails
\* with an IllegalState error, queues no continuation (no resolve or reject was called),
\* and leaves the completion table and the command buffer unchanged.
StaleResolutionIsIllegalState ==
  [][StaleResolution =>
       /\ result'.error = "IllegalState"
       /\ state'.microtasks = <<>> /\ state'.threads = state.threads
       /\ state'.completions = state.completions
       /\ state'.commands = state.commands]_vars

\* a host call of activate for a removeFromCache job on an initialised engine, made in
\* the pre-state
RemoveFromCacheJob ==
  Quiescent /\ state.info /\ result'.op = "activate" /\ result'.variant = "removeFromCache"

\* C18 (as stated): on an initialised engine activate on a removeFromCache job always
\* fails with IllegalState and returns no result.
RemoveFromCacheAlwaysFails ==
  [][RemoveFromCacheJob => result'.error = "IllegalState"]_vars

\* C18: on an initialised engine whose workflow has not completed, activate on a
\* removeFromCache job fails with IllegalState and returns no result; once the workflow
\* has completed the job is skipped like every job that is not a query: activate returns
\* processed = false without error, handing over the pending external calls.  In both
\* cases the engine is otherwise left as it was but for the clock.
RemoveFromCacheFailsUnlessCompleted ==
  [][RemoveFromCacheJob =>
       /\ ~state.completed =>
            /\ result'.error = "IllegalState"
            /\ state'.pendingExternalCalls = state.pendingExternalCalls
       /\ state.completed =>
            /\ result'.error = "none" /\ ~result'.processed
            /\ result'.pendingExternalCalls = state.pendingExternalCalls
            /\ state'.pendingExternalCalls = <<>>
       /\ [state' EXCEPT !.now = state.now, !.pendingExternalCalls = state.pendingExternalCalls] = state]_vars

\* a removeFromCache job failed on a workflow that had started a timer and not completed
RemoveFromCacheFailed ==
  /\ state.info /\ ~state.completed /\ HasMain(state)
  /\ state.commands # <<>>
  /\ result.op = "activate" /\ result.variant = "removeFromCache" /\ result.error = "IllegalState"

\* a host call of activate on an engine initWorkflow was never called on, made in the
\* pre-state
UninitialisedJob == Quiescent /\ ~state.info /\ result'.op = "activate"

\* C19: as long as initWorkflow has not been called, activate fails with IllegalState
\* without dispatching the job and leaves the engine as it was, and reading the clock
\* fails with IllegalState whatever calls the host has made.
UninitialisedEngineRefuses ==
  [][/\ UninitialisedJob =>
          /\ result'.error = "IllegalState" /\ ~result'.processed
          /\ state' = state
     /\ ~state'.info => now(state').thrown = "IllegalState"]_vars

\* a host call of activate for a cancelWorkflow job on an initialised engine whose
\* workflow has not completed, made in the pre-state
CancelJob ==
  /\ Quiescent /\ state.info /\ ~state.completed
  /\ result'.op = "activate" /\ result'.variant = "cancelWorkflow"

\* C20: in every state that is not completed, however many child scopes are open under
\* the root (none included), a cancelWorkflow job sets cancelled, leaves completed unset
\* and the command buffer as it was, and returns processed = true without error, so that
\* the later jobs of the batch are dispatched.
CancelWorkflowProcessed ==
  [][CancelJob =>
       /\ state'.cancelled /\ ~state'.completed
       /\ result'.error = "none" /\ result'.processed
       /\ state'.commands = state.commands]_vars

\* user code calls setTimeout: a step of running code that appends a startTimer command
SetTimeoutCall ==
  /\ Running /\ frames' = frames
  /\ Len(state'.emitted) = Len(state.emitted) + 1
  /\ Last(state'.emitted).type = "startTimer"

\* C21: a setTimeout call takes the current nextSeq as seq and returns it, increases
\* nextSeq by exactly 1, adds to the completion table exactly one entry, under seq, whose
\* scope is the top of the scope stack, appends exactly one command, startTimer with the
\* decimal string of seq as timerId, and changes neither the pending external-call
\* buffer, the scope stack, the scopes, nor completed and cancelled.
SetTimeoutFrame ==
  [][SetTimeoutCall =>
       /\ setTimeoutHandle(state) = state.nextSeq
       /\ state'.nextSeq = state.nextSeq + 1
       /\ state.nextSeq \notin DOMAIN state.completions
       /\ DOMAIN state'.completions = DOMAIN state.completions \cup {state.nextSeq}
       /\ \A k \in DOMAIN state.completions : state'.completions[k] = state.completions[k]
       /\ state'.completions[setTimeoutHandle(state)].scope = Last(state.scopeStack)
       /\ state'.completions[setTimeoutHandle(state)].kind = "timer"
       /\ Len(state'.commands) = Len(state.commands) + 1
       /\ SubSeq(state'.commands, 1, Len(state.commands)) = state.commands
       /\ Last(state'.commands).type = "startTimer"
       /\ Last(state'.commands).timerId = seqToId(state.nextSeq)
       /\ parseInt(Last(state'.commands).timerId) = setTimeoutHandle(state)
       /\ state'.pendingExternalCalls = state.pendingExternalCalls
       /\ state'.scopeStack = state.scopeStack
       /\ state'.childScopes = state.childScopes
       /\ state'.completed = state.completed /\ state'.cancelled = state.cancelled
       /\ state'.threads = state.threads /\ state'.microtasks = state.microtasks]_vars

\* a timer was started inside a child scope, after another timer, and its completion
\* records that scope
TimerInChildScope ==
  /\ frames # <<>> /\ Last(frames).kind = "childScope"
  /\ state.emitted # <<>> /\ Last(state.emitted).type = "startTimer"
  /\ state.nextSeq >= 2
  /\ (state.nextSeq - 1) \in DOMAIN state.completions
  /\ state.completions[state.nextSeq - 1].scope = Last(state.scopeStack)
  /\ Last(state.scopeStack) # 0

\* user code calls clearTimeout: a step of running code that appends a cancelTimer command
ClearTimeoutCall ==
  /\ Running /\ frames' = frames
  /\ Len(state'.emitted) = Len(state.emitted) + 1
  /\ Last(state'.emitted).type = "cancelTimer"

\* the handle the call was given, as its command carries it
ClearedHandle == parseInt(Last(state'.commands).timerId)

\* C22: a clearTimeout(h) call increases nextSeq by exactly 1 and stores nothing under
\* the number it consumed, removes the completion keyed h if there is one and no other,
\* and appends exactly one command, cancelTimer with timerId h; nothing else changes.
\* No step ever adds a completion under a number other than the current nextSeq, so the
\* completion of a cancelled timer never comes back and no fireTimer job for h finds it.
ClearTimeoutFrame ==
  [][/\ ClearTimeoutCall =>
          /\ state'.nextSeq = state.nextSeq + 1
          /\ state.nextSeq \notin DOMAIN state'.completions
          /\ DOMAIN state'.completions = DOMAIN state.completions \ {ClearedHandle}
          /\ \A k \in DOMAIN state'.completions : state'.completions[k] = state.completions[k]
          /\ Len(state'.commands) = Len(state.commands) + 1
          /\ SubSeq(state'.commands, 1, Len(state.commands)) = state.commands
          /\ Last(state'.commands).type = "cancelTimer"
          /\ [state' EXCEPT !.nextSeq = state.nextSeq, !.completions = state.completions,
                            !.commands = state.commands, !.emitted = state.emitted] = state
     /\ DOMAIN state'.completions \ DOMAIN state.completions \subseteq {state.nextSeq}
     /\ state'.nextSeq >= state.nextSeq
     /\ \A k \in DOMAIN state'.completions : k < state'.nextSeq]_vars

\* a pending timer was cancelled after a later timer was started: its completion is
\* gone, the command carries its handle and the counter has moved on
PendingTimerCleared ==
  /\ frames # <<>>
  /\ Len(state.emitted) = 3 /\ Last(state.emitted).type = "cancelTimer"
  /\ state.emitted[1].type = "startTimer" /\ state.emitted[2].type = "startTimer"
  /\ Last(state.emitted).timerId = state.emitted[1].timerId
  /\ DOMAIN state.completions = {1}
  /\ state.nextSeq = 3

\* the scopes the cancellation function of the root fans out to when invoked in a state
ChildrenOfRoot(s) == IF 0 \in DOMAIN s.childScopes THEN s.childScopes[0] ELSE {}

\* C23: the cancellation function propagateCancellation built for the root, invoked by a
\* cancelWorkflow job, calls completeCancel on every scope that is a child of the root at
\* the invocation, children leaving the set during the fan-out notwithstanding (so the
\* children whose completeCancel rejects their promise are all settled afterwards, and
\* only they change), and then calls the root's reject and returns: the job does not
\* fail.
CancelFanOut ==
  [][CancelJob =>
       /\ result'.error = "none"
       /\ \/ \A c \in ChildrenOfRoot(state) : state'.promiseData[c].settled
          \/ state'.promiseData = state.promiseData
       /\ \A c \in DOMAIN state.promiseData :
            c \notin ChildrenOfRoot(state) => state'.promiseData[c] = state.promiseData[c]]_vars

\* scope idx is registered as a child of its parent
Registered(s, idx) ==
  LET parent == scopeOf(s, idx).parent
  IN parent \in DOMAIN s.childScopes /\ idx \in s.childScopes[parent]

\* C24: in every reachable state a scope other than the root is a member of
\* childScopes[parent] exactly when the promise that governs it (the cancellable one)
\* has not been resolved or rejected, so a scope the resolve hook removed is not put
\* back by a later pushScope; and no entry of childScopes holds the empty set.
ChildScopesTrackUnsettled ==
  /\ \A idx \in 1 .. Len(state.scopes) - 1 :
       Registered(state, idx) <=> ~state.promiseData[idx].settled
  /\ \A parent \in DOMAIN state.childScopes : state.childScopes[parent] # {}

\* the promises whose metadata marks them cancellable for scope idx
CancellableOf(s, idx) ==
  {p \in DOMAIN s.promiseData : s.promiseData[p].cancellable /\ s.promiseData[p].scope = idx}

\* C25: at the hook's init event the new promise is marked cancellable exactly when the
\* associated flag of the current scope is false (a scope childScope has just created
\* has it false, any scope that existed before has the value the state holds), the flag
\* is true afterwards, the scope recorded for a cancellable promise is that current
\* scope, and no scope ever has more than one cancellable promise.
InitMarksCancellable ==
  [][/\ \A p \in DOMAIN state'.promiseData \ DOMAIN state.promiseData :
          LET scope == Last(state'.scopeStack)
              flag == scope + 1 \in DOMAIN state.scopes /\ scopeOf(state, scope).associated
          IN /\ state'.promiseData[p].cancellable = ~flag
             /\ scopeOf(state', scope).associated
             /\ state'.promiseData[p].cancellable => state'.promiseData[p].scope = scope
     /\ \A idx \in 0 .. Len(state'.scopes) - 1 : Cardinality(CancellableOf(state', idx)) <= 1]_vars

\* user code created a promise whose parent belongs to a child scope other than the
\* current one, after that scope's own promise
PromiseInsideChildScope ==
  \E p \in DOMAIN state.promiseData :
    /\ p > MaxScopes /\ ~state.promiseData[p].cancellable
    /\ state.promiseData[p].scope \notin {0, currentScope(state)}
    /\ CancellableOf(state, state.promiseData[p].scope) # {}

\* the hook's 'before' of a thread's continuation, and the 'after' that matches it
BeforeEvent == frames = <<>> /\ frames' # <<>> /\ frames'[1].kind = "resume"

AfterEvent == frames # <<>> /\ Last(frames).kind = "resume" /\ frames' = <<>>

\* the scopes pushed and not yet popped: one per continuation and per childScope call
\* under way
OpenPushes == Cardinality({i \in DOMAIN frames : frames[i].kind \in {"resume", "childScope"}})

\* C26: the scope stack is never empty and the root is at its bottom; a 'before' event
\* pushes exactly one scope, the nearest ancestor of type 'scope' of the continuation's
\* scope (that scope itself if it has the type); the matching 'after' pops exactly that
\* scope; the depth is one more than the pushes not yet popped, hence the same after
\* 'after' as before 'before'.
StackDiscipline ==
  [][/\ state.scopeStack # <<>> /\ Head(state.scopeStack) = 0
     /\ state'.scopeStack # <<>> /\ Head(state'.scopeStack) = 0
     /\ Len(state.scopeStack) = 1 + OpenPushes
     /\ BeforeEvent =>
          LET pushed == container(state, state.threads[frames'[1].thread].scope)
          IN /\ pushed # Undefined /\ scopeOf(state, pushed).type = "scope"
             /\ state'.scopeStack = Append(state.scopeStack, pushed)
     /\ AfterEvent =>
          /\ state'.scopeStack = Front(state.scopeStack)
          /\ Last(state.scopeStack) = container(state, state.threads[Last(frames).thread].scope)
          /\ Len(state'.scopeStack) = 1]_vars

\* the continuation of code that awaits inside a timer scope is running: the scope
\* pushed for it is the timer's parent, a child scope of type 'scope'
ContinuationOfTimerScope ==
  /\ frames # <<>> /\ Last(frames).kind = "resume"
  /\ scopeOf(state, state.threads[Last(frames).thread].scope).type = "timer"
  /\ Last(state.scopeStack) # 0
  /\ scopeOf(state, Last(state.scopeStack)).type = "scope"

\* user code calls a dependency injected in awaited-async mode
CallAsyncCall ==
  /\ Running /\ frames' = frames
  /\ Len(state'.emitted) = Len(state.emitted) + 1
  /\ Last(state'.emitted).type = "externalCall" /\ Last(state'.emitted).seq # Undefined

\* the completions of awaited external calls that leave the table in a step
SettledCalls ==
  {seq \in DOMAIN state.completions :
     state.completions[seq].kind = "external" /\ seq \notin DOMAIN state'.completions}

\* C27: a call of a dependency injected in awaited-async mode takes seq = nextSeq,
\* increases nextSeq by one, stores a completion under seq bound to the current scope
\* and appends exactly one entry carrying seq to the pending external-call buffer; the
\* command buffer and everything else stay as they were. The completion, which holds the
\* only resolve and reject of the returned promise, leaves the table only when the host
\* delivers a result for that seq (or, unsettled and for good, when user code passes the
\* number to clearTimeout, which wakes nobody).
CallAsyncFrame ==
  [][/\ CallAsyncCall =>
          /\ state'.nextSeq = state.nextSeq + 1
          /\ state'.completions =
               Put(state.completions, state.nextSeq,
                   [kind |-> "external", scope |-> Last(state.scopeStack)])
          /\ state'.pendingExternalCalls =
               Append(state.pendingExternalCalls, [seq |-> state.nextSeq])
          /\ state'.commands = state.commands
          /\ [state' EXCEPT !.nextSeq = state.nextSeq, !.completions = state.completions,
                            !.pendingExternalCalls = state.pendingExternalCalls,
                            !.emitted = state.emitted] = state
     /\ SettledCalls # {} =>
          \/ /\ result'.op = "resolveExternalDependencies" /\ result'.error = "none"
             /\ Cardinality(SettledCalls) = 1
             /\ DOMAIN state'.completions = DOMAIN state.completions \ SettledCalls
          \/ /\ ClearTimeoutCall /\ SettledCalls = {ClearedHandle}
             /\ state'.threads = state.threads /\ state'.microtasks = state.microtasks]_vars

\* a second awaited call is pending next to a buffered command
AsyncCallPending ==
  /\ frames # <<>> /\ state.commands # <<>>
  /\ state.pendingExternalCalls # <<>>
  /\ Last(state.pendingExternalCalls).seq = state.nextSeq - 1
  /\ state.nextSeq - 1 \in DOMAIN state.completions
  /\ state.completions[state.nextSeq - 1].kind = "external"
  /\ \E seq \in DOMAIN state.completions :
       seq < state.nextSeq - 1 /\ state.completions[seq].kind = "external"

\* the host delivers the batch result'.input
DeliveryStep == Quiescent /\ state.info /\ result'.op = "resolveExternalDependencies"

\* the first k results of a batch each find a completion: their seqs are in the table
\* and differ from one another
Deliverable(s, results, k) ==
  \A i \in 1 .. k :
    /\ results[i].seq \in DOMAIN s.completions
    /\ \A j \in 1 .. i - 1 : results[j].seq # results[i].seq

\* how many results of a batch are delivered before one fails
DeliveredOf(s, results) ==
  CHOOSE k \in 0 .. Len(results) :
    /\ Deliverable(s, results, k)
    /\ k < Len(results) => ~Deliverable(s, results, k + 1)

\* two JavaScript values are the same value
SameValue(a, b) == a.nullish = b.nullish /\ (~a.nullish => a.message = b.message)

\* C28: resolveExternalDependencies takes its results in the order given: each one
\* removes exactly the completion keyed by its seq, and the call fails at the first
\* result whose seq has no completion, be it one consumed by an earlier delivery, by an
\* earlier result of the same batch, or never handed out; the results before it are
\* delivered, those after it are not. The awaiting code is resumed by the first result
\* delivered: rejected with its error if it carries one, resolved otherwise. A
\* completion never returns to the table, so a call is settled at most once in a run.
ResultsDeliveredInOrder ==
  [][/\ DeliveryStep =>
          LET results == result'.input
              k == DeliveredOf(state, results)
              consumed == {results[i].seq : i \in 1 .. k}
          IN /\ DOMAIN state'.completions = DOMAIN state.completions \ consumed
             /\ \A seq \in DOMAIN state'.completions :
                  state'.completions[seq] = state.completions[seq]
             /\ Cardinality(consumed) = k
             /\ result'.error = IF k = Len(results) THEN "none" ELSE "Error"
             /\ \A t \in DOMAIN state.threads \ Woken : state'.threads[t] = state.threads[t]
             /\ Cardinality(Woken) <= 1
             /\ \A t \in Woken :
                  /\ k >= 1
                  /\ SameValue(state'.threads[t].error, results[1].error)
                  /\ Len(state'.microtasks) = Len(state.microtasks) + 1
                  /\ Front(state'.microtasks) = state.microtasks
                  /\ Last(state'.microtasks).task = "resume"
                  /\ Last(state'.microtasks).thread = t
                  /\ SameValue(Last(state'.microtasks).value,
                               IF results[1].error.nullish
                               THEN results[1].result ELSE results[1].error)
             /\ Woken = {} => state'.microtasks = state.microtasks
             /\ [state' EXCEPT !.completions = state.completions, !.threads = state.threads,
                               !.microtasks = state.microtasks] = state
     /\ DOMAIN state'.completions \ DOMAIN state.completions \subseteq {state.nextSeq}
     /\ state'.nextSeq >= state.nextSeq
     /\ \A seq \in DOMAIN state.completions : seq < state.nextSeq]_vars

\* a batch whose first result, an error, was delivered to the awaiting code and whose
\* second result named the same seq again and failed
SecondDeliveryFailed ==
  /\ result.op = "resolveExternalDependencies" /\ result.error = "Error"
  /\ Len(result.input) = 2
  /\ result.input[1].seq = result.input[2].seq
  /\ ~result.input[1].error.nullish
  /\ result.input[1].seq \notin DOMAIN state.completions
  /\ \E t \in DOMAIN state.threads :
       state.threads[t].status = "ready" /\ SameValue(state.threads[t].error, result.input[1].error)

\* the commands among what user code and the engine emitted, in the order of emission
RECURSIVE PushedOf(_)
PushedOf(emitted) ==
  IF emitted = <<>> THEN <<>>
  ELSE IF Last(emitted).type = "externalCall" THEN PushedOf(Front(emitted))
  ELSE Append(PushedOf(Front(emitted)), Last(emitted))

\* the commands encoded so far followed by those still buffered
Account(out, s) == out \o s.commands

\* C29: whatever the sequence of activate, resolveExternalDependencies and
\* concludeActivation calls, the commands encoded so far followed by the commands still
\* buffered are the commands pushed so far, each once and in the order of the pushes;
\* only a conclusion of type complete encodes, it encodes the whole buffer and empties
\* it, so a command is encoded by the first complete conclusion after its push and by
\* no other; a conclusion of type pending leaves the buffer as it is.
CommandsEncodedOnce ==
  [][/\ Len(Account(outbound', state')) = Len(PushedOf(state'.emitted))
     /\ \A i \in DOMAIN Account(outbound', state') :
          /\ Account(outbound', state')[i].type = PushedOf(state'.emitted)[i].type
          /\ Account(outbound', state')[i].timerId = PushedOf(state'.emitted)[i].timerId
     /\ Len(Account(outbound', state')) >= Len(Account(outbound, state))
     /\ SubSeq(Account(outbound', state'), 1, Len(Account(outbound, state))) =
          Account(outbound, state)
     /\ (ConcludeCall /\ result'.type = "complete") =>
          (outbound' = outbound \o state.commands /\ state'.commands = <<>>)
     /\ (ConcludeCall /\ result'.type = "pending") =>
          (outbound' = outbound /\ state'.commands = state.commands)
     /\ ~ConcludeCall => outbound' = outbound]_vars

\* a complete conclusion has encoded two commands of a run in which an awaited external
\* call was made between them and its result delivered
EncodedAroundExternalCall ==
  /\ result.op = "concludeActivation" /\ result.type = "complete"
  /\ Len(outbound) = 2 /\ state.commands = <<>>
  /\ Len(state.emitted) = 3
  /\ state.emitted[2].type = "externalCall" /\ state.emitted[2].seq # Undefined
  /\ state.emitted[2].seq \notin DOMAIN state.completions

\* an activation is under way: a job was handed to activate, or the last conclusion was
\* pending
ActivationOpen ==
  \/ result.op \in {"running", "activate", "resolveExternalDependencies"}
  \/ result.op = "concludeActivation" /\ result.type = "pending"

ConcludedComplete == result.op = "concludeActivation" /\ result.type = "complete"

\* C30: with user code that makes finitely many external calls and runs to completion,
\* and a host that answers every pending conclusion with a result for each returned call
\* that has a seq and then concludes again, every activation reaches a conclusion of
\* type complete.
ActivationsConclude == ActivationOpen ~> ConcludedComplete

\* a complete conclusion came after a pending one whose call, made in a continuation,
\* was answered
CompleteAfterPending ==
  /\ ConcludedComplete
  /\ \E i \in DOMAIN ref.pendingExternalCalls :
       /\ ref.pendingExternalCalls[i].seq # Undefined
       /\ ref.pendingExternalCalls[i].seq \notin DOMAIN state.completions

\* following parent references from scope idx reaches the root within `fuel` steps
RECURSIVE ReachesRoot(_, _, _)
ReachesRoot(s, idx, fuel) ==
  IF idx = 0 THEN TRUE
  ELSE IF fuel = 0 \/ idx = Undefined THEN FALSE
  ELSE ReachesRoot(s, scopeOf(s, idx).parent, fuel - 1)

\* C31: the scopes form a tree with one root: scope 0 has no parent and is the only one
\* without; the scopes childScope creates get the indexes 1, 2, ... in the order of
\* their creation (the n-th scope object is the one with index n, and nextScopeIdx is
\* the next one); the parent of a new scope is the scope that was on top of the scope
\* stack when childScope was called; parent references lead from every scope to the root
\* without a cycle; a scope, once created, keeps its parent.
ScopesFormTree ==
  [][/\ state'.nextScopeIdx = Len(state'.scopes)
     /\ scopeOf(state', 0).parent = Undefined
     /\ \A idx \in 1 .. Len(state'.scopes) - 1 :
          /\ scopeOf(state', idx).parent \in 0 .. idx - 1
          /\ ReachesRoot(state', idx, Len(state'.scopes))
     /\ Len(state'.scopes) >= Len(state.scopes)
     /\ \A idx \in 0 .. Len(state.scopes) - 1 :
          scopeOf(state', idx).parent = scopeOf(state, idx).parent
     /\ \A idx \in Len(state.scopes) .. Len(state'.scopes) - 1 :
          /\ idx = state.nextScopeIdx
          /\ scopeOf(state', idx).parent = Last(state.scopeStack)]_vars

\* a scope was created inside a child scope: its parent is not the root
NestedScope ==
  \E idx \in 1 .. Len(state.scopes) - 1 :
    /\ scopeOf(state, idx).parent # 0
    /\ idx = Last(state.scopeStack)

\* the external calls among what user code emitted, as the pending buffer records them
RECURSIVE ExternalOf(_)
ExternalOf(emitted) ==
  IF emitted = <<>> THEN <<>>
  ELSE IF Last(emitted).type = "externalCall"
  THEN Append(ExternalOf(Front(emitted)), [seq |-> Last(emitted).seq])
  ELSE ExternalOf(Front(emitted))

\* the calls a step hands to the host: those in the value activate or concludeActivation
\* returns
HandedOver ==
  IF /\ result'.op \in {"activate", "concludeActivation"}
     /\ \/ Quiescent
        \/ frames # <<>> /\ frames' = <<>> /\ Last(frames).kind # "resume"
  THEN result'.pendingExternalCalls
  ELSE <<>>

\* the calls user code enqueues in a step
Enqueued ==
  SubSeq(ExternalOf(state'.emitted), Len(ExternalOf(state.emitted)) + 1,
         Len(ExternalOf(state'.emitted)))

\* C32: every external call user code enqueues, awaited or ignored, is handed to the
\* host exactly once and in the order of the enqueues: in every step the buffer followed
\* by the calls enqueued in the step is what the step hands over followed by the buffer
\* it leaves, and the buffer is always the tail of the calls enqueued so far; this
\* includes the activate that skips a job because the workflow is completed, and the
\* activate that throws, which hands nothing over and keeps the buffer.
CallsHandedOverOnce ==
  [][/\ state.pendingExternalCalls \o Enqueued = HandedOver \o state'.pendingExternalCalls
     /\ Len(state'.pendingExternalCalls) <= Len(ExternalOf(state'.emitted))
     /\ state'.pendingExternalCalls =
          SubSeq(ExternalOf(state'.emitted),
                 Len(ExternalOf(state'.emitted)) - Len(state'.pendingExternalCalls) + 1,
                 Len(ExternalOf(state'.emitted)))
     /\ result'.op = "concludeActivation" /\ Quiescent =>
          (result'.type = "pending" <=> HandedOver # <<>>)]_vars

\* an activate that skipped its job on a completed workflow handed over a call that a
\* continuation had enqueued after the completion
SkippedJobHandsOver ==
  /\ state.completed
  /\ result.op = "activate" /\ ~result.processed /\ result.error = "none"
  /\ result.pendingExternalCalls # <<>>
  /\ state.pendingExternalCalls = <<>>

\* the terminal commands pushed so far in a run
TerminalCommands(s) ==
  {i \in DOMAIN s.emitted :
     s.emitted[i].type \in {"completeWorkflowExecution", "failWorkflowExecution"}}

\* C33: over a whole run at most one terminal command (completeWorkflowExecution or
\* failWorkflowExecution) is pushed, whatever the interleaving of jobs, of the settlement
\* of main and of signal handlers and of resolveExternalDependencies calls, and
\* completed, once true, stays true.
SingleTerminalCommand ==
  [][/\ Cardinality(TerminalCommands(state')) <= 1
     /\ state.completed => state'.completed]_vars

\* C34: clearTimeout(h) removes from the completion table only a completion that
\* setTimeout created: whatever h is, the completions of awaited external calls and of
\* activities are in the table after the call as they were before it.
ClearTimeoutSparesOthers ==
  [][ClearTimeoutCall =>
       \A seq \in DOMAIN state.completions :
         state.completions[seq].kind # "timer" =>
           /\ seq \in DOMAIN state'.completions
           /\ state'.completions[seq] = state.completions[seq]]_vars

====
